---- MODULE Spec2Model ----
(***************************************************************************)
(* Model of the GraphRAG service of the People.AI demo:                    *)
(*   services/entity_extractor.py   (entity / relationship extraction)     *)
(*   services/graphrag_processor.py (insight synthesis and ranking)        *)
(*   services/pinecone_service.py   (semantic and hybrid search)           *)
(*   services/neo4j_service.py      (graph construction and traversal)     *)
(*   main.py                        (the operations of the service)        *)
(*                                                                         *)
(* Python values are represented as follows.                               *)
(*   str    a TLA+ string; characters are read with SubSeq                 *)
(*   dict   a TLA+ record whose DOMAIN is the set of keys that are present *)
(*   list   a TLA+ sequence                                                *)
(*   float  an integer number of 1/One-ths (One is a common denominator of *)
(*          every literal and every matches/len(keywords) ratio the        *)
(*          extractor computes), so the arithmetic of the code is exact    *)
(* A value whose Python type the code tests (isinstance) or trips over is  *)
(* a record with a field pytype: "dict", "str" or "list".                  *)
(***************************************************************************)
EXTENDS Integers, Sequences, FiniteSets, TLC

VARIABLES request, response, neo4j, tasks, services

vars == <<request, response, neo4j, tasks, services>>

(***************************************************************************)
(* Python str methods                                                      *)
(***************************************************************************)
DigitChars == "0123456789"

CharAt(s, i) == SubSeq(s, i, i)

CharIn(c, chars) == \E i \in 1..Len(chars) : CharAt(chars, i) = c

\* the lower-case letter of every upper-case letter, and the reverse
ToLower ==
  [A |-> "a", B |-> "b", C |-> "c", D |-> "d", E |-> "e", F |-> "f", G |-> "g", H |->
   "h", I |-> "i", J |-> "j", K |-> "k", L |-> "l", M |-> "m", N |-> "n", O |-> "o", P
   |-> "p", Q |-> "q", R |-> "r", S |-> "s", T |-> "t", U |-> "u", V |-> "v", W |->
   "w", X |-> "x", Y |-> "y", Z |-> "z"]
ToUpper ==
  [a |-> "A", b |-> "B", c |-> "C", d |-> "D", e |-> "E", f |-> "F", g |-> "G", h |->
   "H", i |-> "I", j |-> "J", k |-> "K", l |-> "L", m |-> "M", n |-> "N", o |-> "O", p
   |-> "P", q |-> "Q", r |-> "R", s |-> "S", t |-> "T", u |-> "U", v |-> "V", w |->
   "W", x |-> "X", y |-> "Y", z |-> "Z"]

IsUpper(c) == c \in DOMAIN ToLower
IsLower(c) == c \in DOMAIN ToUpper
IsAlphaChar(c) == IsUpper(c) \/ IsLower(c)
\* \w of the re module, on ASCII text
IsWordChar(c) == IsAlphaChar(c) \/ CharIn(c, DigitChars) \/ c = "_"
\* \s of the re module and the separators of str.split(), on ASCII text
IsSpace(c) == c \in {" ", "\t", "\n", "\r", "\f"}

LowerChar(c) == IF IsUpper(c) THEN ToLower[c] ELSE c
UpperChar(c) == IF IsLower(c) THEN ToUpper[c] ELSE c

RECURSIVE MapRange(_, _, _, _)
\* the characters s[lo..hi], each replaced as kind says; the range is halved so that
\* the depth of the evaluation grows with the logarithm of its length
MapRange(s, lo, hi, kind) ==
  IF lo > hi THEN ""
  ELSE IF lo = hi
  THEN LET Mapped(c) == CASE kind = "lower" -> LowerChar(c)
                          [] kind = "space_to_underscore" -> IF c = " " THEN "_" ELSE c
                          [] kind = "underscore_to_space" -> IF c = "_" THEN " " ELSE c
                          [] kind = "at_to_at" -> IF c = "@" THEN "_at_" ELSE c
                          [] kind = "dot_to_underscore" -> IF c = "." THEN "_" ELSE c
       IN Mapped(CharAt(s, lo))
  ELSE MapRange(s, lo, (lo + hi) \div 2, kind) \o MapRange(s, (lo + hi) \div 2 + 1, hi, kind)

\* the characters s[i..], each replaced as kind says
MapChars(s, i, kind) == MapRange(s, i, Len(s), kind)

\* str.lower()
Lower(s) == MapChars(s, 1, "lower")
\* str.replace(' ', '_')
ReplaceSpace(s) == MapChars(s, 1, "space_to_underscore")
\* str.replace('_', ' ')
ReplaceUnderscore(s) == MapChars(s, 1, "underscore_to_space")
\* str.replace('@', '_at_').replace('.', '_')
ReplaceAtDot(s) == MapChars(MapChars(s, 1, "at_to_at"), 1, "dot_to_underscore")

\* sub in s
Contains(s, sub) ==
  \E i \in 1..(Len(s) - Len(sub) + 1) : SubSeq(s, i, i + Len(sub) - 1) = sub

\* s[:n]
Take(s, n) == SubSeq(s, 1, IF Len(s) < n THEN Len(s) ELSE n)

RECURSIVE SplitChars(_, _, _, _)
\* str.split(sep) / re.split('[seps]', s): the parts of s[i..], cur being the part
\* read so far; empty parts are kept
SplitChars(s, i, cur, seps) ==
  IF i > Len(s) THEN <<cur>>
  ELSE IF CharIn(CharAt(s, i), seps)
       THEN <<cur>> \o SplitChars(s, i + 1, "", seps)
       ELSE SplitChars(s, i + 1, cur \o CharAt(s, i), seps)

SplitOn(s, seps) == SplitChars(s, 1, "", seps)

RECURSIVE SplitWords(_, _, _)
\* str.split(): the whitespace-separated words of s[i..]; no empty word
SplitWords(s, i, cur) ==
  IF i > Len(s) THEN (IF cur = "" THEN <<>> ELSE <<cur>>)
  ELSE IF IsSpace(CharAt(s, i))
       THEN (IF cur = "" THEN <<>> ELSE <<cur>>) \o SplitWords(s, i + 1, "")
       ELSE SplitWords(s, i + 1, cur \o CharAt(s, i))

Split(s) == SplitWords(s, 1, "")

\* str.isalpha()
IsAlpha(s) == Len(s) > 0 /\ \A i \in 1..Len(s) : IsAlphaChar(CharAt(s, i))

\* str.capitalize()
Capitalize(s) ==
  IF s = "" THEN "" ELSE UpperChar(CharAt(s, 1)) \o Lower(SubSeq(s, 2, Len(s)))

RECURSIVE TitleFrom(_, _, _)
\* str.title(): a letter that follows a non-letter is upper-cased, any other lowered
TitleFrom(s, i, afterLetter) ==
  IF i > Len(s) THEN ""
  ELSE LET c == CharAt(s, i)
       IN (IF afterLetter THEN LowerChar(c) ELSE UpperChar(c))
            \o TitleFrom(s, i + 1, IsAlphaChar(c))

Title(s) == TitleFrom(s, 1, FALSE)

RECURSIVE Join(_, _)
\* sep.join(parts)
Join(sep, parts) ==
  IF Len(parts) = 0 THEN ""
  ELSE IF Len(parts) = 1 THEN parts[1]
  ELSE parts[1] \o sep \o Join(sep, Tail(parts))

(***************************************************************************)
(* Python dict / list helpers                                              *)
(***************************************************************************)
\* d.get(k, default)
Get(d, k, default) == IF k \in DOMAIN d THEN d[k] ELSE default

\* isinstance(x, dict), isinstance(x, str)
IsDict(x) == x.pytype = "dict"
IsStr(x) == x.pytype = "str"
IsList(x) == x.pytype = "list"

\* a Python str held in a position where the code may meet another type
Str(s) == [pytype |-> "str", s |-> s]

RECURSIVE Concat(_)
\* the concatenation of a list of lists
Concat(lists) == IF Len(lists) = 0 THEN <<>> ELSE Head(lists) \o Concat(Tail(lists))

\* [f(x) for x in xs if keep(x)]
SelectMap(xs, Keep(_), F(_)) ==
  Concat([i \in 1..Len(xs) |-> IF Keep(xs[i]) THEN <<F(xs[i])>> ELSE <<>>])

\* sum(1 for w in words if w in text)
CountContained(words, text) ==
  Cardinality({i \in 1..Len(words) : Contains(text, words[i])})

\* floats are integers in units of 1/One; One = 100 * lcm(1, ..., 15)
One == 100 * 8 * 9 * 5 * 7 * 11 * 13
Tenths(n) == n * (One \div 10)
Hundredths(n) == n * (One \div 100)
Min(a, b) == IF a < b THEN a ELSE b
Max(a, b) == IF a > b THEN a ELSE b

(***************************************************************************)
(* entity_extractor.py: EntityExtractor                                    *)
(***************************************************************************)
\* the keys of self.topic_categories, in insertion (iteration) order
TopicCategoryOrder ==
  <<"pricing", "technical", "security", "support", "business", "product",
    "timeline", "meeting">>

\* self.topic_categories
topic_categories ==
  [pricing |-> <<"price", "cost", "budget", "pricing", "discount", "fee", "payment", "invoice">>,
   technical |-> <<"api", "integration", "development", "technical", "code", "system", "platform">>,
   security |-> <<"security", "compliance", "privacy", "audit", "encryption", "authentication">>,
   support |-> <<"support", "help", "issue", "problem", "bug", "maintenance", "troubleshoot">>,
   business |-> <<"business", "strategy", "growth", "revenue", "expansion", "partnership">>,
   product |-> <<"product", "feature", "functionality", "capability", "solution", "offering">>,
   timeline |-> <<"timeline", "schedule", "deadline", "delivery", "launch", "implementation">>,
   meeting |-> <<"meeting", "call", "discussion", "presentation", "demo", "review">>]

positive_words ==
  <<"good", "great", "excellent", "positive", "happy", "satisfied", "success", "amazing">>
negative_words ==
  <<"bad", "poor", "negative", "unhappy", "problem", "issue", "concern", "worried">>

\* the slice bounds of the event summaries
EmailSummaryLimit == 200
CallSummaryLimit == 300
DocumentSummaryLimit == 200
\* custom_topics[:5] and len(topic_phrase.split()) <= 3
CustomTopicLimit == 5
CustomPhraseWords == 3

\* _analyze_sentiment
AnalyzeSentiment(text) ==
  IF text = "" THEN "neutral"
  ELSE LET text_lower == Lower(text)
           positive_count == CountContained(positive_words, text_lower)
           negative_count == CountContained(negative_words, text_lower)
       IN IF positive_count > negative_count THEN "positive"
          ELSE IF negative_count > positive_count THEN "negative"
          ELSE "neutral"

RECURSIVE LowerRunEnd(_, _)
\* the last index of the run [a-z]+ that starts at j
LowerRunEnd(t, j) ==
  IF j + 1 <= Len(t) /\ IsLower(CharAt(t, j + 1)) THEN LowerRunEnd(t, j + 1) ELSE j

RECURSIVE SpaceRunEnd(_, _)
\* the last index of the run \s+ that starts at j
SpaceRunEnd(t, j) ==
  IF j + 1 <= Len(t) /\ IsSpace(CharAt(t, j + 1)) THEN SpaceRunEnd(t, j + 1) ELSE j

\* the last index of the longest [A-Z][a-z]+ at i, 0 when there is none
WordEnd(t, i) ==
  IF i + 1 <= Len(t) /\ IsUpper(CharAt(t, i)) /\ IsLower(CharAt(t, i + 1))
  THEN LowerRunEnd(t, i + 1) ELSE 0

\* \b after the word character at e
BoundaryAfter(t, e) == e = Len(t) \/ ~IsWordChar(CharAt(t, e + 1))
\* \b before the word character at i
BoundaryBefore(t, i) == i = 1 \/ ~IsWordChar(CharAt(t, i - 1))

RECURSIVE ExtendEnd(_, _)
\* (?:\s+[A-Z][a-z]+)*\b after a word ending at e: greedy, giving iterations back
\* until \b holds; the end of the match, 0 when there is none
ExtendEnd(t, e) ==
  LET next == IF e + 1 <= Len(t) /\ IsSpace(CharAt(t, e + 1))
              THEN WordEnd(t, SpaceRunEnd(t, e + 1) + 1) ELSE 0
      further == IF next # 0 THEN ExtendEnd(t, next) ELSE 0
  IN IF further # 0 THEN further
     ELSE IF BoundaryAfter(t, e) THEN e ELSE 0

\* the end of the match of \b[A-Z][a-z]+ [A-Z][a-z]+(?:\s+[A-Z][a-z]+)*\b at i, or 0
PhraseEnd(t, i) ==
  LET w1 == WordEnd(t, i)
      w2 == IF w1 # 0 /\ w1 + 1 <= Len(t) /\ CharAt(t, w1 + 1) = " "
            THEN WordEnd(t, w1 + 2) ELSE 0
  IN IF w2 # 0 /\ BoundaryBefore(t, i) THEN ExtendEnd(t, w2) ELSE 0

RECURSIVE FindPhrases(_, _)
\* re.findall of the phrase pattern on t[i..]: leftmost, non-overlapping
FindPhrases(t, i) ==
  LET starts == {j \in i..Len(t) : PhraseEnd(t, j) # 0}
      From(j) == <<SubSeq(t, j, PhraseEnd(t, j))>> \o FindPhrases(t, PhraseEnd(t, j) + 1)
      First(candidates) ==
        IF candidates = {} THEN <<>>
        ELSE From(CHOOSE j \in candidates : \A k \in candidates : j <= k)
  IN First(starts)

\* the topic dict of one keyword category with a confidence that adds the whole
\* importance to 0.3
CategoryTopicUnweighted(category, matches) ==
  LET keywords == topic_categories[category]
      importance == Min((matches * One) \div Len(keywords), One)
  IN [id |-> "topic_" \o category,
      name |-> Title(ReplaceUnderscore(category)),
      category |-> category,
      importance |-> importance,
      keyword_matches |-> matches,
      confidence |-> Min(Tenths(3) + importance, One),
      source |-> "text_analysis"]

\* the topic dict of one keyword category
CategoryTopic(category, matches) ==
  LET keywords == topic_categories[category]
      importance == Min((matches * One) \div Len(keywords), One)
  IN [id |-> "topic_" \o category,
      name |-> Title(ReplaceUnderscore(category)),
      category |-> category,
      importance |-> importance,
      keyword_matches |-> matches,
      confidence |-> Min(Tenths(3) + (importance * 7) \div 10, One),
      source |-> "text_analysis"]

\* the topic dict of one capitalized phrase
CustomTopic(topic_phrase) ==
  [id |-> "custom_" \o ReplaceSpace(Lower(topic_phrase)),
   name |-> topic_phrase,
   category |-> "custom",
   importance |-> Tenths(5),
   confidence |-> Tenths(4),
   source |-> "phrase_extraction"]

\* _extract_topics_from_text
ExtractTopicsFromText(text) ==
  IF text = "" THEN <<>>
  ELSE LET text_lower == Lower(text)
           Matches(category) == CountContained(topic_categories[category], text_lower)
           KeepCategory(category) == Matches(category) > 0
           MakeCategory(category) == CategoryTopic(category, Matches(category))
           custom_topics == FindPhrases(text, 1)
           first == SubSeq(custom_topics, 1, Min(Len(custom_topics), CustomTopicLimit))
           KeepPhrase(phrase) == Len(Split(phrase)) <= CustomPhraseWords
       IN SelectMap(TopicCategoryOrder, KeepCategory, MakeCategory)
            \o SelectMap(first, KeepPhrase, CustomTopic)

\* _extract_person_from_email, for an address that holds '@'
ExtractPersonFromEmail(email_address) ==
  LET local_part == SplitOn(email_address, "@")[1]
      domain == SplitOn(email_address, "@")[2]
      name_parts == SplitOn(local_part, "._-")
      name == Join(" ", SelectMap(name_parts, IsAlpha, Capitalize))
      org_name == Capitalize(SplitOn(domain, ".")[1])
  IN [id |-> ReplaceAtDot(email_address),
      name |-> IF name # "" THEN name ELSE local_part,
      email |-> email_address,
      organization |-> org_name,
      confidence |-> Tenths(6),
      source |-> "email_address"]

\* the test `email_addr and '@' in email_addr` (a non-str item is an empty mapping)
IsEmailAddress(x) == IsStr(x) /\ x.s # "" /\ Contains(x.s, "@")

PersonOfAddress(x) == ExtractPersonFromEmail(x.s)

\* body[:limit] + '...' if len(body) > limit else body
Summarize(body, limit) == IF Len(body) > limit THEN Take(body, limit) \o "..." ELSE body

EmptyEntities == [people |-> <<>>, organizations |-> <<>>, topics |-> <<>>, events |-> <<>>]

\* _merge_entities (the four keys of a per-source result are keys of the target)
MergeEntities(target, source) ==
  [k \in DOMAIN target |-> IF k \in DOMAIN source THEN target[k] \o source[k] ELSE target[k]]

RECURSIVE MergeAll(_)
MergeAll(list) ==
  IF Len(list) = 0 THEN EmptyEntities ELSE MergeEntities(Head(list), MergeAll(Tail(list)))

\* _extract_people_from_stakeholders
StakeholderPerson(stakeholder) ==
  [id |-> ReplaceSpace(Lower(Get(stakeholder, "name", ""))),
   name |-> Get(stakeholder, "name", ""),
   email |-> Get(stakeholder, "email", ""),
   role |-> Get(stakeholder, "persona_type", ""),
   department |-> Get(stakeholder, "department", ""),
   organization |-> Get(stakeholder, "organization", ""),
   influence |-> Get(stakeholder, "influence", "medium"),
   confidence |-> Tenths(9),
   source |-> "stakeholder_data"]

ExtractPeopleFromStakeholders(stakeholders) ==
  SelectMap(stakeholders, IsDict, StakeholderPerson)

\* the entities of one message of an email thread
MessageEntities(message) ==
  LET sender == Get(message, "from", Str(""))
      to == Get(message, "to", [pytype |-> "list", items |-> <<>>])
      recipients == IF IsStr(to) THEN <<to>> ELSE to.items
      subject == Get(message, "subject", "")
      body == Get(message, "body", "")
      timestamp == Get(message, "timestamp", "")
  IN [people |-> SelectMap(<<sender>> \o recipients, IsEmailAddress, PersonOfAddress),
      organizations |-> <<>>,
      topics |-> ExtractTopicsFromText(subject \o " " \o body),
      events |-> <<[id |-> "email_" \o timestamp,
                    type |-> "email",
                    date |-> timestamp,
                    subject |-> subject,
                    summary |-> Summarize(body, EmailSummaryLimit),
                    participants |-> <<sender>> \o recipients,
                    sentiment |-> AnalyzeSentiment(body),
                    confidence |-> Tenths(8),
                    source |-> "email_data"]>>]

ThreadEntities(email_thread) ==
  MergeAll(SelectMap(Get(email_thread, "messages", <<>>), IsDict, MessageEntities))

\* _extract_from_emails
ExtractFromEmails(emails) == MergeAll(SelectMap(emails, IsDict, ThreadEntities))

\* participant.lower() and turn.get('text', '') raise AttributeError on another type
CallRaises(call) ==
  \/ \E i \in 1..Len(Get(call, "participants", <<>>)) : ~IsStr(call.participants[i])
  \/ \E i \in 1..Len(Get(call, "transcript", <<>>)) : ~IsDict(call.transcript[i])

CallsRaise(calls) == \E i \in 1..Len(calls) : IsDict(calls[i]) /\ CallRaises(calls[i])

CallPerson(participant) ==
  [id |-> ReplaceSpace(Lower(participant.s)),
   name |-> participant.s,
   confidence |-> Tenths(7),
   source |-> "call_data"]

TurnText(turn) == Get(turn, "text", "")
AnyItem(x) == TRUE

\* the entities of one call that does not raise
CallEntities(call) ==
  LET participants == Get(call, "participants", <<>>)
      transcript == Get(call, "transcript", <<>>)
      transcript_text == Join(" ", SelectMap(transcript, AnyItem, TurnText))
      date == Get(call, "date", "")
  IN [people |-> SelectMap(participants, AnyItem, CallPerson),
      organizations |-> <<>>,
      topics |-> ExtractTopicsFromText(transcript_text),
      events |-> <<[id |-> Get(call, "call_id", "call_" \o date),
                    type |-> "call",
                    date |-> date,
                    summary |-> Summarize(transcript_text, CallSummaryLimit),
                    participants |-> participants,
                    duration |-> Get(call, "duration", ""),
                    sentiment |-> AnalyzeSentiment(transcript_text),
                    confidence |-> Tenths(8),
                    source |-> "call_data"]>>]

\* _extract_from_calls, when it does not raise
ExtractFromCalls(calls) == MergeAll(SelectMap(calls, IsDict, CallEntities))

InteractionEntities(interaction) ==
  LET participants == Get(interaction, "participants", <<>>)
      summary == Get(interaction, "summary", "")
      date == Get(interaction, "date", "")
  IN [people |-> SelectMap(participants, IsEmailAddress, PersonOfAddress),
      organizations |-> <<>>,
      topics |-> ExtractTopicsFromText(summary),
      events |-> <<[id |-> "interaction_" \o date \o "_" \o Get(interaction, "type", ""),
                    type |-> Get(interaction, "type", "interaction"),
                    date |-> date,
                    summary |-> summary,
                    participants |-> participants,
                    sentiment |-> Get(interaction, "sentiment", "neutral"),
                    confidence |-> Tenths(7),
                    source |-> "interaction_data"]>>]

\* _extract_from_interactions
ExtractFromInteractions(interactions) ==
  MergeAll(SelectMap(interactions, IsDict, InteractionEntities))

DocumentEntities(doc) ==
  LET content == Get(doc, "content", "")
      title == Get(doc, "title", "")
  IN [people |-> <<>>,
      organizations |-> <<>>,
      topics |-> ExtractTopicsFromText(title \o " " \o content),
      events |-> <<[id |-> "document_" \o Get(doc, "id", ""),
                    type |-> "document",
                    date |-> Get(doc, "created_date", ""),
                    subject |-> title,
                    summary |-> Summarize(content, DocumentSummaryLimit),
                    confidence |-> Tenths(6),
                    source |-> "document_data"]>>]

\* _extract_from_documents
ExtractFromDocuments(documents) == MergeAll(SelectMap(documents, IsDict, DocumentEntities))

\* OrganizationId without the lower(): the target keeps the case of the attribute
OrganizationIdKeepCase(organization) == ReplaceSpace(organization)

\* person['organization'].lower().replace(' ', '_')
OrganizationId(organization) == ReplaceSpace(Lower(organization))

WorksFor(person) ==
  [source |-> person.id,
   target |-> OrganizationId(person.organization),
   type |-> "WORKS_FOR",
   strength |-> Tenths(8),
   context |-> "employment"]

\* the test `if person.get('organization')`
HasOrganization(person) == Get(person, "organization", "") # ""

\* the PARTICIPATED_IN relationships of one event with the participant taken as it is
ParticipationsUnnormalized(event) ==
  LET MakeOne(participant) ==
        [source |-> participant.s,
         target |-> event.id,
         type |-> "PARTICIPATED_IN",
         strength |-> Tenths(9),
         context |-> event.type]
  IN SelectMap(Get(event, "participants", <<>>), IsStr, MakeOne)

\* the PARTICIPATED_IN relationships of one event
Participations(event) ==
  LET MakeOne(participant) ==
        [source |-> ReplaceAtDot(participant.s),
         target |-> event.id,
         type |-> "PARTICIPATED_IN",
         strength |-> Tenths(9),
         context |-> event.type]
  IN SelectMap(Get(event, "participants", <<>>), IsStr, MakeOne)

\* the DISCUSSED relationships of one event
Discussions(event, topics) ==
  LET event_text == Get(event, "subject", "") \o " " \o Get(event, "summary", "")
      Keywords(topic) == Get(topic_categories, Get(topic, "category", ""), <<>>)
      Discussed(topic) == CountContained(Keywords(topic), Lower(event_text)) > 0
      MakeOne(topic) ==
        [source |-> event.id,
         target |-> topic.id,
         type |-> "DISCUSSED",
         strength |-> Get(topic, "importance", Tenths(5)),
         context |-> "topic_discussion"]
  IN SelectMap(topics, Discussed, MakeOne)

\* _extract_relationships
ExtractRelationships(entities) ==
  LET DiscussionsOf(event) == Discussions(event, entities.topics)
  IN SelectMap(entities.people, HasOrganization, WorksFor)
       \o Concat(SelectMap(entities.events, AnyItem, Participations))
       \o Concat(SelectMap(entities.events, AnyItem, DiscussionsOf))

RECURSIVE DedupeFrom(_, _, _)
\* the loop of _deduplicate_entities over one bucket, from index i, with seen_ids
DedupeFrom(list, i, seen_ids) ==
  IF i > Len(list) THEN <<>>
  ELSE LET entity_id == Get(list[i], "id", "")
       IN IF entity_id \notin seen_ids
          THEN <<list[i]>> \o DedupeFrom(list, i + 1, seen_ids \cup {entity_id})
          ELSE DedupeFrom(list, i + 1, seen_ids)

RECURSIVE DedupeForgetfulFrom(_, _, _)
\* the loop with a seen_ids that forgets an id once a duplicate of it was dropped
DedupeForgetfulFrom(list, i, seen_ids) ==
  IF i > Len(list) THEN <<>>
  ELSE LET entity_id == Get(list[i], "id", "")
       IN IF entity_id \notin seen_ids
          THEN <<list[i]>> \o DedupeForgetfulFrom(list, i + 1, seen_ids \cup {entity_id})
          ELSE DedupeForgetfulFrom(list, i + 1, seen_ids \ {entity_id})

DedupeListForgetful(list) == DedupeForgetfulFrom(list, 1, {})

\* the loop without seen_ids.add: every entity is kept
DedupeListNoAdd(list) == list

\* the loop that keeps of every id the record seen last
DedupeListKeepLast(list) ==
  Concat([i \in 1..Len(list) |->
            IF \E j \in (i + 1)..Len(list) : Get(list[j], "id", "") = Get(list[i], "id", "")
            THEN <<>> ELSE <<list[i]>>])

DedupeList(list) == DedupeFrom(list, 1, {})

\* _deduplicate_entities
DeduplicateEntities(entities) ==
  [k \in DOMAIN entities |->
     IF k = "relationships" THEN entities[k] ELSE DedupeList(entities[k])]

\* the account organization with the type of an ordinary organization
AccountOrganizationUntyped(account_name) ==
  [id |-> ReplaceSpace(Lower(account_name)),
   name |-> account_name,
   type |-> "organization",
   industry |-> "technology",
   confidence |-> One]

\* the account itself as an Organization
AccountOrganization(account_name) ==
  [id |-> ReplaceSpace(Lower(account_name)),
   name |-> account_name,
   type |-> "primary_account",
   industry |-> "technology",
   confidence |-> One]

\* extract_from_account_data raises (the except clause re-raises)
ExtractionRaises(account_data) ==
  "calls" \in DOMAIN account_data /\ CallsRaise(account_data.calls)

\* extract_from_account_data up to and including the account organization
CollectEntities(account_data) ==
  LET FromSource(key, Extract(_)) ==
        IF key \in DOMAIN account_data THEN Extract(account_data[key]) ELSE EmptyEntities
      stakeholders == IF "stakeholders" \in DOMAIN account_data
                      THEN ExtractPeopleFromStakeholders(account_data.stakeholders)
                      ELSE <<>>
      merged == MergeAll(<<[people |-> stakeholders, organizations |-> <<>>,
                            topics |-> <<>>, events |-> <<>>],
                           FromSource("emails", ExtractFromEmails),
                           FromSource("calls", ExtractFromCalls),
                           FromSource("interactions", ExtractFromInteractions),
                           FromSource("documents", ExtractFromDocuments)>>)
      account_name == Get(account_data, "accountName", "unknown")
  IN [merged EXCEPT !.organizations = @ \o <<AccountOrganization(account_name)>>]

\* the relationships step of extract_from_account_data
WithRelationships(extracted, extract_relationships) ==
  [people |-> extracted.people,
   organizations |-> extracted.organizations,
   topics |-> extracted.topics,
   events |-> extracted.events,
   relationships |-> IF extract_relationships THEN ExtractRelationships(extracted) ELSE <<>>]

\* extract_from_account_data, when it does not raise
ExtractFromAccountData(account_data, extract_relationships) ==
  DeduplicateEntities(WithRelationships(CollectEntities(account_data), extract_relationships))

(***************************************************************************)
(* graphrag_processor.py: GraphRAGProcessor._rank_and_deduplicate_insights *)
(***************************************************************************)
\* summary[:50] in the key of an insight
InsightKeyLength == 50

\* the key with the whole summary in it
InsightKeyWholeSummary(insight) ==
  Get(insight, "type", "") \o "_" \o Get(insight, "summary", "")

\* insight_key
InsightKey(insight) ==
  Get(insight, "type", "") \o "_" \o Take(Get(insight, "summary", ""), InsightKeyLength)

RECURSIVE UniqueInsightsFrom(_, _, _)
\* the loop that fills unique_insights, from index i, with seen_types
UniqueInsightsFrom(insights, i, seen_types) ==
  IF i > Len(insights) THEN <<>>
  ELSE LET insight_key == InsightKey(insights[i])
       IN IF insight_key \notin seen_types
          THEN <<insights[i]>>
                 \o UniqueInsightsFrom(insights, i + 1, seen_types \cup {insight_key})
          ELSE UniqueInsightsFrom(insights, i + 1, seen_types)

RECURSIVE DescendingOrder(_)
\* the order in which sorted(..., reverse=True) puts items with these keys: the sort
\* is stable, so an index goes behind every earlier index whose key is at least its own
DescendingOrder(keys) ==
  LET Place(front, last, n) ==
        SubSeq(front, 1, n) \o <<last>> \o SubSeq(front, n + 1, Len(front))
      Insert(front, last) ==
        Place(front, last,
              Cardinality({i \in 1..Len(front) : keys[front[i]] >= keys[last]}))
  IN IF Len(keys) = 0 THEN <<>>
     ELSE Insert(DescendingOrder(SubSeq(keys, 1, Len(keys) - 1)), Len(keys))

\* sorted(list, key=..., reverse=True), keys[i] being the key of list[i]
SortedDescending(list, keys) ==
  LET Pick(order) == [i \in 1..Len(list) |-> list[order[i]]]
  IN Pick(DescendingOrder(keys))

RECURSIVE Reversed(_)
Reversed(list) == IF Len(list) = 0 THEN <<>> ELSE Reversed(Tail(list)) \o <<Head(list)>>

InsightConfidence(insight) == Get(insight, "confidence", 0)

\* the ranking as sorted(...)[::-1] of an ascending sort: ties come out reversed
RankedReversed(unique_insights) ==
  Reversed(SortedDescending(unique_insights,
           [i \in 1..Len(unique_insights) |-> 0 - InsightConfidence(unique_insights[i])]))

\* sorted(unique_insights, key=lambda x: x.get('confidence', 0), reverse=True)
Ranked(unique_insights) ==
  SortedDescending(unique_insights,
                   [i \in 1..Len(unique_insights) |-> InsightConfidence(unique_insights[i])])

\* _rank_and_deduplicate_insights
RankAndDeduplicateInsights(insights) == Ranked(UniqueInsightsFrom(insights, 1, {}))

(***************************************************************************)
(* pinecone_service.py: PineconeService.semantic_search, hybrid_search     *)
(***************************************************************************)
\* min(top_k, 5) in _mock_search_results
MockResultLimit == 5

DigitOf(i) == CharAt(DigitChars, i + 1)

\* _mock_search_results
MockSearchResults(query, top_k) ==
  [n \in 1..Min(top_k, MockResultLimit) |->
     [id |-> "mock_doc_" \o DigitOf(n - 1),
      score |-> Tenths(8) - (n - 1) * Tenths(1),
      metadata |-> [type |-> "mock", query |-> query],
      text |-> "Mock document " \o DigitOf(n - 1) \o " related to: " \o query]]

\* filters=None of semantic_search
NoFilters == [k \in {} |-> ""]

\* the index applies a metadata filter: every key of it is in the metadata, with its value
PassesFilters(match, filters) ==
  \A k \in DOMAIN filters : k \in DOMAIN match.metadata /\ match.metadata[k] = filters[k]

\* semantic_search: the matches of the index are the environment's; the index
\* answers at most top_k of those that pass the filter, and a failing or missing
\* index gives the mock
SemanticSearchWith(pinecone, query, top_k, filters) ==
  IF ~pinecone.initialized \/ pinecone.query_fails
  THEN MockSearchResults(query, top_k)
  ELSE LET Passes(match) == PassesFilters(match, filters)
           Same(match) == match
           passed == SelectMap(pinecone.matches, Passes, Same)
       IN SubSeq(passed, 1, Min(top_k, Len(passed)))

\* semantic_search without filters
SemanticSearch(pinecone, query, top_k) == SemanticSearchWith(pinecone, query, top_k, NoFilters)

\* set(text.lower().split())
Keywords(text) == LET words == Split(Lower(text)) IN {words[i] : i \in 1..Len(words)}

\* context_keywords
ContextKeywords(graph_context) ==
  UNION {Keywords(graph_context[i]) : i \in 1..Len(graph_context)}

\* the re-scoring of one result; the int context_overlap is held as a float, and the
\* division is exact for up to 15 context keywords (every such count divides One)
ScoredResult(result, context_keywords) ==
  LET context_overlap == Cardinality(context_keywords \cap Keywords(result.text))
      fraction == (context_overlap * One) \div Max(Cardinality(context_keywords), 1)
  IN [id |-> result.id,
      score |-> result.score,
      metadata |-> result.metadata,
      text |-> result.text,
      hybrid_score |-> (result.score * 7) \div 10 + (fraction * 3) \div 10,
      context_relevance |-> context_overlap * One]

\* hybrid_search
HybridSearch(pinecone, query, graph_context, top_k) ==
  LET semantic_results == SemanticSearch(pinecone, query, top_k * 2)
      context_keywords == ContextKeywords(graph_context)
      scored == [i \in 1..Len(semantic_results) |->
                   ScoredResult(semantic_results[i], context_keywords)]
      sorted == SortedDescending(scored, [i \in 1..Len(scored) |-> scored[i].hybrid_score])
  IN SubSeq(sorted, 1, Min(top_k, Len(sorted)))

(***************************************************************************)
(* neo4j_service.py: Neo4jService, and the graph store behind its driver   *)
(*                                                                         *)
(* The store is [nodes, rels, catalog, now, constraints]: nodes and rels   *)
(* in creation order (a relationship names its end nodes by their index),  *)
(* catalog the graphs projected for community detection, now the time of   *)
(* the last transaction, constraints whether _initialize_schema got its    *)
(* uniqueness constraints created (it only warns when it does not).        *)
(***************************************************************************)
\* the properties of a relationship that is created without any
NoProps == [k \in {} |-> ""]

RECURSIVE Ascending(_)
\* the members of a set of numbers in ascending order
Ascending(S) ==
  IF S = {} THEN <<>>
  ELSE LET least == CHOOSE x \in S : \A y \in S : x <= y
       IN <<least>> \o Ascending(S \ {least})

\* the labels with a uniqueness constraint on id (schema_queries)
ConstrainedLabels == {"Person", "Organization", "Topic", "Event", "Account"}

\* the nodes that a pattern (:label {key}) matches, oldest first
MatchNodes(nodes, label, key) ==
  Ascending({i \in 1..Len(nodes) :
               /\ nodes[i].label = label
               /\ \A k \in DOMAIN key :
                    k \in DOMAIN nodes[i].props /\ nodes[i].props[k] = key[k]})

\* creating (:label {key}) would break the uniqueness constraint of the label
BreaksConstraint(store, label, key) ==
  /\ store.constraints
  /\ label \in ConstrainedLabels
  /\ "id" \in DOMAIN key
  /\ \E i \in 1..Len(store.nodes) :
       /\ store.nodes[i].label = label
       /\ "id" \in DOMAIN store.nodes[i].props
       /\ store.nodes[i].props.id = key.id

\* MERGE (:label {key}): a transaction that has failed stays failed
MergeNode(tx, label, key) ==
  IF tx.failed \/ MatchNodes(tx.nodes, label, key) # <<>> THEN tx
  ELSE IF BreaksConstraint(tx, label, key) THEN [tx EXCEPT !.failed = TRUE]
  ELSE [tx EXCEPT !.nodes = @ \o <<[label |-> label, props |-> key]>>]

\* SET n.k = v for every matched node n and every k of props
SetProps(tx, matched, props) ==
  IF tx.failed THEN tx
  ELSE [tx EXCEPT !.nodes =
          [i \in 1..Len(@) |->
             IF \E j \in 1..Len(matched) : matched[j] = i
             THEN [@[i] EXCEPT !.props = props @@ @]
             ELSE @[i]]]

\* the relationships of a type from one node to another
MatchRels(rels, type, source, target) ==
  Ascending({i \in 1..Len(rels) :
               rels[i].type = type /\ rels[i].source = source /\ rels[i].target = target})

\* SET r += props for the matched relationships r
SetRelProps(rels, matched, props) ==
  [i \in 1..Len(rels) |->
     IF \E j \in 1..Len(matched) : matched[j] = i
     THEN [rels[i] EXCEPT !.props = props @@ @]
     ELSE rels[i]]

\* MERGE (source)-[r:type]->(target) SET r += props for one pair of ends
MergeRel(rels, type, source, target, props) ==
  LET Set(merged) == SetRelProps(merged, MatchRels(merged, type, source, target), props)
  IN Set(IF MatchRels(rels, type, source, target) # <<>> THEN rels
         ELSE rels \o <<[type |-> type, source |-> source, target |-> target,
                         props |-> props]>>)

RECURSIVE MergeRels(_, _, _, _)
\* MERGE (source)-[r:type]->(target) SET r += props, for every pair of ends in turn
MergeRels(tx, type, ends, props) ==
  IF tx.failed \/ Len(ends) = 0 THEN tx
  ELSE MergeRels([tx EXCEPT !.rels = MergeRel(@, type, Head(ends)[1], Head(ends)[2], props)],
                 type, Tail(ends), props)

\* the rows source x target of two matches, in the order the store pairs them
Rows(sources, targets) ==
  Concat([i \in 1..Len(sources) |-> [j \in 1..Len(targets) |-> <<sources[i], targets[j]>>]])

\* the statement of build_account_graph that creates the account node
AccountStatement(tx, account_name) ==
  LET key == [id |-> account_name, name |-> account_name, created_at |-> tx.now]
      Set(merged) ==
        SetProps(merged, MatchNodes(merged.nodes, "Account", key), [updated_at |-> tx.now])
  IN Set(MergeNode(tx, "Account", key))

\* one statement of build_account_graph for an entity: MERGE the entity node, SET its
\* attributes, MERGE the account by name and MERGE the link from the entity to it
EntityStatement(tx, label, key, attributes, link, account_name) ==
  LET Link(with_account, entity) ==
        MergeRels(with_account, link,
                  Rows(entity, MatchNodes(with_account.nodes, "Account",
                                          [name |-> account_name])),
                  NoProps)
      Set(merged, entity) ==
        Link(MergeNode(SetProps(merged, entity, attributes), "Account",
                       [name |-> account_name]),
             entity)
      Match(merged) == Set(merged, MatchNodes(merged.nodes, label, key))
  IN Match(MergeNode(tx, label, key))

PersonStatement(tx, person, account_name) ==
  EntityStatement(tx, "Person",
    [id |-> Get(person, "id", ReplaceSpace(Lower(person.name))), name |-> person.name],
    [email |-> Get(person, "email", ""), role |-> Get(person, "role", ""),
     department |-> Get(person, "department", ""),
     organization |-> Get(person, "organization", ""), updated_at |-> tx.now],
    "ASSOCIATED_WITH", account_name)

OrganizationStatement(tx, org, account_name) ==
  EntityStatement(tx, "Organization",
    [id |-> Get(org, "id", ReplaceSpace(Lower(org.name))), name |-> org.name],
    [industry |-> Get(org, "industry", ""), size |-> Get(org, "size", ""),
     updated_at |-> tx.now],
    "RELATED_TO", account_name)

TopicStatement(tx, topic, account_name) ==
  EntityStatement(tx, "Topic",
    [id |-> Get(topic, "id", ReplaceSpace(Lower(topic.name))), name |-> topic.name],
    [category |-> Get(topic, "category", ""), sentiment |-> Get(topic, "sentiment", "neutral"),
     importance |-> Get(topic, "importance", Tenths(5)), updated_at |-> tx.now],
    "DISCUSSED_IN", account_name)

EventStatement(tx, event, account_name) ==
  EntityStatement(tx, "Event",
    [id |-> Get(event, "id", event.type \o "_" \o Get(event, "date", "unknown")),
     type |-> event.type],
    [date |-> Get(event, "date", ""), subject |-> Get(event, "subject", ""),
     summary |-> Get(event, "summary", ""), sentiment |-> Get(event, "sentiment", "neutral"),
     updated_at |-> tx.now],
    "OCCURRED_IN", account_name)

\* the nodes n with n.id = id, whatever their label
NodesWithId(nodes, id) ==
  Ascending({i \in 1..Len(nodes) :
               "id" \in DOMAIN nodes[i].props /\ nodes[i].props.id = id})

\* relationship_query for one extracted relationship
RelationshipStatement(tx, rel) ==
  MergeRels(tx, rel.type,
            Rows(NodesWithId(tx.nodes, rel.source), NodesWithId(tx.nodes, rel.target)),
            [strength |-> Get(rel, "strength", One), context |-> Get(rel, "context", ""),
             created_at |-> tx.now, updated_at |-> tx.now])

RECURSIVE RunStatements(_, _, _, _)
\* the loops of build_account_graph: one statement per entity of a bucket
RunStatements(tx, bucket, list, account_name) ==
  LET Statement(entity) ==
        CASE bucket = "people" -> PersonStatement(tx, entity, account_name)
          [] bucket = "organizations" -> OrganizationStatement(tx, entity, account_name)
          [] bucket = "topics" -> TopicStatement(tx, entity, account_name)
          [] bucket = "events" -> EventStatement(tx, entity, account_name)
          [] bucket = "relationships" -> RelationshipStatement(tx, entity)
      Continue(next) ==
        IF next.failed THEN next
        ELSE RunStatements(next, bucket, Tail(list), account_name)
  IN IF Len(list) = 0 THEN tx ELSE Continue(Statement(Head(list)))

\* the statistics query at the end of build_account_graph: the nodes n linked to the
\* account by r1 and the relationships r2 of those nodes
GraphStats(tx, account_name, entities) ==
  LET Counts(r1, n) ==
        [account_name |-> account_name,
         people_created |-> Len(Get(entities, "people", <<>>)),
         organizations_created |-> Len(Get(entities, "organizations", <<>>)),
         topics_created |-> Len(Get(entities, "topics", <<>>)),
         events_created |-> Len(Get(entities, "events", <<>>)),
         relationships_created |-> Len(Get(entities, "relationships", <<>>)),
         total_nodes |-> Cardinality(n),
         total_relationships |->
           Cardinality(r1)
             + Cardinality({i \in 1..Len(tx.rels) :
                              tx.rels[i].source \in n \/ tx.rels[i].target \in n})]
      Linked(r1) == Counts(r1, {tx.rels[i].source : i \in r1})
      ToAccount(account) ==
        Linked({i \in 1..Len(tx.rels) :
                  \E j \in 1..Len(account) : account[j] = tx.rels[i].target})
  IN ToAccount(MatchNodes(tx.nodes, "Account", [name |-> account_name]))

RECURSIVE RunBuckets(_, _, _, _)
\* the loops of build_account_graph over the buckets, one after the other; an
\* exception in a statement ends the transaction
RunBuckets(tx, buckets, entities, account_name) ==
  IF tx.failed \/ Len(buckets) = 0 THEN tx
  ELSE RunBuckets(RunStatements(tx, Head(buckets), Get(entities, Head(buckets), <<>>),
                                account_name),
                  Tail(buckets), entities, account_name)

\* the transaction of build_account_graph, begun at the next instant of the store
BuildTransaction(store, account_name, entities) ==
  LET begun == [nodes |-> store.nodes, rels |-> store.rels, now |-> store.now + 1,
                constraints |-> store.constraints, failed |-> FALSE]
  IN RunBuckets(AccountStatement(begun, account_name),
                <<"people", "organizations", "topics", "events", "relationships">>,
                entities, account_name)

\* build_account_graph: the store it leaves (a failed transaction is rolled back) and
\* what it returns or that it raises; without a driver it raises before any statement
BuildAccountGraph(store, account_name, entities) ==
  LET Commit(tx) ==
        IF tx.failed
        THEN [store |-> [store EXCEPT !.now = tx.now], raised |-> TRUE]
        ELSE [store |-> [store EXCEPT !.nodes = tx.nodes, !.rels = tx.rels,
                                      !.now = tx.now],
              raised |-> FALSE,
              graph_stats |-> GraphStats(tx, account_name, entities)]
  IN IF ~store.driver THEN [store |-> store, raised |-> TRUE]
     ELSE Commit(BuildTransaction(store, account_name, entities))

\* a Python None, and a str or None held where the code may meet either
None == [pytype |-> "NoneType"]
IsNone(x) == x.pytype = "NoneType"
\* node.get(key): the property as a str, or None
NodeGet(node, key) == IF key \in DOMAIN node.props THEN Str(node.props[key]) ELSE None
\* str(x) / f"{x}"
Format(x) == IF IsNone(x) THEN "None" ELSE x.s

\* the relationship types of find_related_entities: the links to the account, and
\* the relationshipFilter of the expansion (followed in either direction)
AccountLinkTypes == {"ASSOCIATED_WITH", "RELATED_TO", "DISCUSSED_IN", "OCCURRED_IN"}
TraversalTypes == {"PARTICIPATED_IN", "DISCUSSED", "WORKS_FOR", "MENTIONED_IN"}

\* the rows of MATCH (a:Account {name})<-[...]-(start) WHERE start.id = $entity_id
StartNodes(store, account_name, entity_id) ==
  LET Sources(rows) == [j \in 1..Len(rows) |-> store.rels[rows[j]].source]
  IN Sources(Ascending({i \in 1..Len(store.rels) :
       /\ store.rels[i].type \in AccountLinkTypes
       /\ store.nodes[store.rels[i].target].label = "Account"
       /\ NodeGet(store.nodes[store.rels[i].target], "name") = Str(account_name)
       /\ NodeGet(store.nodes[store.rels[i].source], "id") = Str(entity_id)}))

\* the paths that extend a path by one relationship it does not hold yet
\* (the expansion never repeats a relationship within a path)
Extensions(store, path) ==
  LET end == path.nodes[Len(path.nodes)]
      Other(rel) == IF rel.source = end THEN rel.target ELSE rel.source
      Extended(next) ==
        [j \in 1..Len(next) |->
           [nodes |-> path.nodes \o <<Other(store.rels[next[j]])>>,
            rels |-> path.rels \o <<next[j]>>]]
  IN Extended(Ascending({i \in 1..Len(store.rels) :
       /\ store.rels[i].type \in TraversalTypes
       /\ \A j \in 1..Len(path.rels) : path.rels[j] # i
       /\ (store.rels[i].source = end \/ store.rels[i].target = end)}))

RECURSIVE ExpandLevels(_, _, _)
\* breadth first: the paths of the next level, then those of the levels beyond it
ExpandLevels(store, frontier, levels) ==
  LET Beyond(next) == next \o ExpandLevels(store, next, levels - 1)
  IN IF levels = 0 \/ Len(frontier) = 0 THEN <<>>
     ELSE Beyond(Concat([i \in 1..Len(frontier) |-> Extensions(store, frontier[i])]))

\* apoc.path.expandConfig(start, {minLevel: 1, maxLevel: $max_hops, bfs: true})
ExpandConfig(store, start, max_hops) ==
  ExpandLevels(store, <<[nodes |-> <<start>>, rels |-> <<>>]>>, max_hops)

\* the dicts that find_related_entities appends for one record (one path)
PathEntities(store, path) ==
  [i \in 1..Len(path.nodes) |->
     LET entity == store.nodes[path.nodes[i]]
     IN [id |-> NodeGet(entity, "id"),
         name |-> NodeGet(entity, "name"),
         labels |-> <<entity.label>>,
         properties |-> entity.props,
         distance |-> Len(path.rels)]]

\* ORDER BY distance of a sequence of paths that are in breadth-first order per start
OrderByDistance(paths, max_hops) ==
  Concat([d \in 1..max_hops |->
            Concat([i \in 1..Len(paths) |->
                      IF Len(paths[i].rels) = d THEN <<paths[i]>> ELSE <<>>])])

\* find_related_entities: it raises when the driver is missing or the query fails
FindRelatedEntities(store, account_name, entity_id, max_hops, query_fails) ==
  LET Entities(paths) == Concat([i \in 1..Len(paths) |-> PathEntities(store, paths[i])])
      Paths(start) ==
        Entities(OrderByDistance(
          Concat([i \in 1..Len(start) |-> ExpandConfig(store, start[i], max_hops)]),
          max_hops))
  IN IF ~store.driver \/ query_fails THEN [raised |-> TRUE]
     ELSE [raised |-> FALSE, value |-> Paths(StartNodes(store, account_name, entity_id))]

\* the labels and relationship types that detect_communities projects
ProjectedLabels == {"Person", "Organization", "Topic"}
ProjectedTypes == {"PARTICIPATED_IN", "DISCUSSED", "WORKS_FOR", "MENTIONED_IN"}

GraphName(account_name) == "account-graph-" \o account_name

InCatalog(store, name) == \E g \in store.catalog : g.name = name

\* gds.graph.project: the projection of the whole store under a name of the catalog
Projection(store, name) ==
  LET Between(nodes) ==
        [name |-> name,
         nodes |-> nodes,
         rels |-> {i \in 1..Len(store.rels) :
                     /\ store.rels[i].type \in ProjectedTypes
                     /\ store.rels[i].source \in nodes
                     /\ store.rels[i].target \in nodes}]
  IN Between({i \in 1..Len(store.nodes) : store.nodes[i].label \in ProjectedLabels})

RECURSIVE Connected(_, _, _)
\* the nodes of a projection that are connected to one of `found`
Connected(store, graph, found) ==
  LET Grown(more) ==
        IF more \subseteq found THEN found ELSE Connected(store, graph, found \cup more)
  IN Grown({n \in graph.nodes :
              \E r \in graph.rels :
                \/ store.rels[r].source = n /\ store.rels[r].target \in found
                \/ store.rels[r].target = n /\ store.rels[r].source \in found})

\* the least of a set of numbers
Least(S) == CHOOSE least \in S : \A m \in S : least <= m

\* gds.louvain.stream: the communityId of a node. The partition is the store's to
\* choose; here it is the connected components, each numbered by its oldest node
CommunityId(store, graph, n) == Least(Connected(store, graph, {n}))

\* the communities dict that detect_communities fills from the stream, as the list
\* of {'id', 'members'} that it returns: communities in order of first appearance;
\* `stream` is the sequence of the rows [node, communityId]
Communities(store, graph) ==
  LET Member(n) == [id |-> NodeGet(store.nodes[n], "id"),
                    name |-> NodeGet(store.nodes[n], "name"),
                    labels |-> <<store.nodes[n].label>>,
                    properties |-> store.nodes[n].props]
      Grouped(stream, ids) ==
        [c \in 1..Len(ids) |->
           [id |-> ids[c],
            members |-> Concat([i \in 1..Len(stream) |->
                          IF stream[i].communityId = ids[c]
                          THEN <<Member(stream[i].node)>> ELSE <<>>])]]
      Ids(stream) ==
        Grouped(stream, Ascending({stream[i].communityId : i \in 1..Len(stream)}))
      Stream(order) ==
        Ids([i \in 1..Len(order) |->
               [node |-> order[i], communityId |-> CommunityId(store, graph, order[i])]])
  IN Stream(Ascending(graph.nodes))

\* one await of detect_communities, for the coroutine `task` on the store. A task is
\* [account_name, pc, communities, result]; pc names the statement it runs next:
\*   "project"  session.run(project_query)       fails if the name is in the catalog
\*   "stream"   session.run(community_query)     fails if the name is not in it
\*   "drop"     session.run(cleanup_query)       fails if the name is not in it
\*   "cleanup"  the except clause: session.run(cleanup_query), errors ignored
\*   "done"     returned `result`
DetectCommunitiesStep(store, task) ==
  LET name == GraphName(task.account_name)
      present == InCatalog(store, name)
      graph == CHOOSE g \in store.catalog : g.name = name
      dropped == [store EXCEPT !.catalog = {g \in @ : g.name # name}]
      failed == [store |-> store, task |-> [task EXCEPT !.pc = "cleanup"]]
  IN CASE task.pc = "project" ->
            IF present THEN failed
            ELSE [store |-> [store EXCEPT !.catalog = @ \cup {Projection(store, name)}],
                  task |-> [task EXCEPT !.pc = "stream"]]
       [] task.pc = "stream" ->
            IF ~present THEN failed
            ELSE [store |-> store,
                  task |-> [task EXCEPT !.pc = "drop",
                                        !.communities = Communities(store, graph)]]
       [] task.pc = "drop" ->
            IF ~present THEN failed
            ELSE [store |-> dropped,
                  task |-> [task EXCEPT !.pc = "done", !.result = task.communities]]
       [] task.pc = "cleanup" ->
            [store |-> dropped, task |-> [task EXCEPT !.pc = "done", !.result = <<>>]]

\* a coroutine that has just been called
NewTask(account_name) ==
  [account_name |-> account_name, pc |-> "project", communities |-> <<>>, result |-> <<>>]

RECURSIVE RunToEnd(_, _)
RunToEnd(store, task) ==
  LET Continue(next) == RunToEnd(next.store, next.task)
  IN IF task.pc = "done" THEN [store |-> store, task |-> task]
     ELSE Continue(DetectCommunitiesStep(store, task))

\* detect_communities when no other coroutine runs between its awaits: it raises when
\* the driver is missing (the session is opened outside the try), and returns [] when
\* its queries fail
DetectCommunities(store, account_name, query_fails) ==
  LET Return(end) == [raised |-> FALSE, store |-> end.store, value |-> end.task.result]
  IN IF ~store.driver THEN [raised |-> TRUE, store |-> store]
     ELSE IF query_fails THEN [raised |-> FALSE, store |-> store, value |-> <<>>]
     ELSE Return(RunToEnd(store, NewTask(account_name)))

(***************************************************************************)
(* graphrag_processor.py: GraphRAGProcessor.process_query and its insight  *)
(* synthesizers                                                            *)
(*                                                                         *)
(* A synthesizer is modelled by its body, which gives [raised, value], and *)
(* by the body under its try/except. list(set) of str depends on the hash  *)
(* seed of the interpreter: hash_seed 0 lists a set in the order of first  *)
(* insertion, hash_seed 1 in the reverse of it.                            *)
(***************************************************************************)
RECURSIVE Decimal(_)
\* str(n) of a natural number
Decimal(n) == IF n < 10 THEN DigitOf(n) ELSE Decimal(n \div 10) \o DigitOf(n % 10)

RECURSIVE FirstOccurrences(_, _)
\* the items of a sequence without those that occurred before
FirstOccurrences(seq, seen) ==
  IF Len(seq) = 0 THEN <<>>
  ELSE IF Head(seq) \in seen THEN FirstOccurrences(Tail(seq), seen)
  ELSE <<Head(seq)>> \o FirstOccurrences(Tail(seq), seen \cup {Head(seq)})

HashSeeds == {0, 1}

\* list(set(...)) of the items inserted in the order of seq
SetList(hash_seed, seq) ==
  IF hash_seed = 0 THEN FirstOccurrences(seq, {}) ELSE Reversed(FirstOccurrences(seq, {}))

\* list[:n]
Slice(list, n) == SubSeq(list, 1, Min(n, Len(list)))

\* the numbers of process_query: top_k of the semantic and of the hybrid search, and
\* the slices of the result
SemanticTopK == 20
HybridTopK == 15
SemanticReferenceLimit == 5
GraphContextLimit == 10

\* _extract_entity_context: the ids in the order they are added to entity_ids
EntityIdsAdded(semantic_results) ==
  Concat([i \in 1..Len(semantic_results) |->
    LET metadata == Get(semantic_results[i], "metadata", NoFilters)
        participants == Get(metadata, "participants", <<>>)
    IN [j \in 1..Len(participants) |-> ReplaceAtDot(participants[j])]
         \o (IF "thread_id" \in DOMAIN metadata THEN <<metadata.thread_id>> ELSE <<>>)
         \o (IF "call_id" \in DOMAIN metadata THEN <<metadata.call_id>> ELSE <<>>)
         \o (IF "document_id" \in DOMAIN metadata THEN <<metadata.document_id>> ELSE <<>>)])

ExtractEntityContext(semantic_results, hash_seed) ==
  SetList(hash_seed, EntityIdsAdded(semantic_results))

\* what a synthesizer gives when its except clause has caught an exception
Caught == [raised |-> FALSE, value |-> <<>>]
\* try: body / except Exception: return None (or [])
TryExcept(body) == IF body.raised THEN Caught ELSE body

\* entity.get('name', '').lower() raises on a name that is None
NameRaises(entity) == IsNone(entity.name)
\* entity.get('name', '').lower() in text
NameIn(entity, text) == Contains(text, Lower(entity.name.s))

CorrelationThreshold == 2
CorrelationSummaryNames == 3

\* the insight of _analyze_cross_source_correlation for list(semantic_entities)
CorrelationInsight(semantic_entities, count) ==
  [type |-> "cross_source_correlation",
   confidence |-> Min(count * Tenths(2), One),
   evidence |-> <<[type |-> "entity_mention",
                   entities |-> semantic_entities,
                   correlation_strength |-> count]>>,
   relationships |-> <<>>,
   summary |-> "Found " \o Decimal(count)
     \o " entities correlated across semantic search and graph data: "
     \o Join(", ", Slice(semantic_entities, CorrelationSummaryNames))]

\* the body of _analyze_cross_source_correlation
CrossSourceCorrelationBody(semantic_results, graph_context, hash_seed) ==
  LET Return(semantic_entities) ==
        [raised |-> FALSE,
         value |-> IF Len(semantic_entities) >= CorrelationThreshold
                   THEN <<CorrelationInsight(semantic_entities, Len(semantic_entities))>>
                   ELSE <<>>]
  IN IF Len(semantic_results) > 0
          /\ \E i \in 1..Len(graph_context) : NameRaises(graph_context[i])
     THEN [raised |-> TRUE]
     ELSE Return(SetList(hash_seed,
            Concat([r \in 1..Len(semantic_results) |->
              Concat([e \in 1..Len(graph_context) |->
                IF NameIn(graph_context[e], Lower(Get(semantic_results[r], "text", "")))
                THEN <<graph_context[e].name.s>> ELSE <<>>])])))

\* the synthesizer without its try/except: the exception leaves it
CrossSourceCorrelationUncaught(semantic_results, graph_context, hash_seed) ==
  CrossSourceCorrelationBody(semantic_results, graph_context, hash_seed)

AnalyzeCrossSourceCorrelation(semantic_results, graph_context, hash_seed) ==
  TryExcept(CrossSourceCorrelationBody(semantic_results, graph_context, hash_seed))

\* self.min_community_size, communities[:3], members[:5], len(members) > 5
MinCommunitySize == 3
CommunityLimit == 3
CommunityMemberLimit == 5
StrongCommunitySize == 5

\* the insight of _analyze_community_patterns for one community
CommunityInsight(community) ==
  LET members == Get(community, "members", <<>>)
      WithLabel(label) ==
        Cardinality({i \in 1..Len(members) :
                       \E j \in 1..Len(members[i].labels) : members[i].labels[j] = label})
      person_count == WithLabel("Person")
      org_count == WithLabel("Organization")
      shown == Slice(members, CommunityMemberLimit)
  IN [type |-> "community_influence",
      confidence |-> Tenths(8),
      evidence |-> <<[type |-> "community_composition", people |-> person_count,
                      organizations |-> org_count, total_members |-> Len(members)]>>,
      relationships |-> [i \in 1..Len(shown) |->
                           [source |-> shown[i].id,
                            target |-> "community_" \o Decimal(community.id),
                            type |-> "MEMBER_OF"]],
      summary |-> "Community " \o Decimal(community.id) \o " contains "
        \o Decimal(person_count) \o " people and " \o Decimal(org_count)
        \o " organizations, indicating a "
        \o (IF Len(members) > StrongCommunitySize THEN "strong" ELSE "moderate")
        \o " influence network"]

\* the body of _analyze_community_patterns: nothing in it raises on the communities
\* that detect_communities returns
CommunityPatternsBody(communities, graph_context) ==
  LET top == Slice(communities, CommunityLimit)
  IN [raised |-> FALSE,
      value |-> Concat([i \in 1..Len(top) |->
                  IF Len(Get(top[i], "members", <<>>)) >= MinCommunitySize
                  THEN <<CommunityInsight(top[i])>> ELSE <<>>])]

AnalyzeCommunityPatterns(communities, graph_context) ==
  TryExcept(CommunityPatternsBody(communities, graph_context))

TemporalThreshold == 3

\* the body of _analyze_temporal_patterns: nothing in it raises on the results of
\* semantic_search
TemporalPatternsBody(semantic_results, graph_context) ==
  LET timestamps ==
        Cardinality({i \in 1..Len(semantic_results) :
          LET metadata == Get(semantic_results[i], "metadata", NoFilters)
          IN "timestamp" \in DOMAIN metadata \/ "date" \in DOMAIN metadata})
  IN [raised |-> FALSE,
      value |->
        IF timestamps >= TemporalThreshold
        THEN <<[type |-> "temporal_evolution",
                confidence |-> Tenths(7),
                evidence |-> <<[type |-> "temporal_distribution", event_count |-> timestamps,
                                time_span |-> "recent_activity"]>>,
                relationships |-> <<>>,
                summary |-> "Identified " \o Decimal(timestamps)
                  \o " timestamped interactions showing active engagement pattern"]>>
        ELSE <<>>]

AnalyzeTemporalPatterns(semantic_results, graph_context) ==
  TryExcept(TemporalPatternsBody(semantic_results, graph_context))

\* graph_context[:5] in _perform_multi_hop_reasoning
HopRelationshipLimit == 5

\* min of the keys instead
MinDistance(distances) == CHOOSE d \in distances : \A e \in distances : d <= e
\* max(entities_by_distance.keys())
MaxDistance(distances) == CHOOSE d \in distances : \A e \in distances : e <= d

\* the body of _perform_multi_hop_reasoning: nothing in it raises on the entities
\* that find_related_entities returns
MultiHopReasoningBody(query, graph_context) ==
  LET distances == {Get(graph_context[i], "distance", 1) : i \in 1..Len(graph_context)}
      max_distance == MaxDistance(distances)
      shown == Slice(graph_context, HopRelationshipLimit)
  IN [raised |-> FALSE,
      value |->
        IF Cardinality(distances) > 1
        THEN <<[type |-> "multi_hop_reasoning",
                confidence |-> Tenths(6),
                evidence |-> <<[type |-> "hop_analysis",
                                max_hops |-> max_distance,
                                entities_per_hop |->
                                  [k \in {Decimal(d) : d \in distances} |->
                                     Cardinality({i \in 1..Len(graph_context) :
                                       Decimal(Get(graph_context[i], "distance", 1)) = k})]]>>,
                relationships |-> [i \in 1..Len(shown) |->
                                     [source |-> "query_context",
                                      target |-> shown[i].id,
                                      type |-> "CONNECTED_AT_HOP_"
                                        \o Decimal(Get(shown[i], "distance", 1))]],
                summary |-> "Multi-hop reasoning found " \o Decimal(Len(graph_context))
                  \o " connected entities within " \o Decimal(max_distance)
                  \o " degrees of separation"]>>
        ELSE <<>>]

PerformMultiHopReasoning(query, graph_context) ==
  TryExcept(MultiHopReasoningBody(query, graph_context))

\* hybrid_results[:5] and entity.get('distance', 999) <= 2 and aligned_entities >= 2
AlignmentResultLimit == 5
AlignmentDistance == 2
AlignmentThreshold == 2

\* the inner loop of _analyze_semantic_structural_alignment for one result: the first
\* entity at which it stops, by an exception or by the break; 0 if it runs to the end
AlignmentStop(result, graph_context) ==
  LET result_text == Lower(Get(result, "text", ""))
      stops == {i \in 1..Len(graph_context) :
                  \/ NameRaises(graph_context[i])
                  \/ /\ NameIn(graph_context[i], result_text)
                     /\ Get(graph_context[i], "distance", 999) <= AlignmentDistance}
  IN IF stops = {} THEN 0 ELSE CHOOSE i \in stops : \A j \in stops : i <= j

\* the insight of _analyze_semantic_structural_alignment
AlignmentInsight(aligned_entities, alignment_strength) ==
  [type |-> "semantic_structural_alignment",
   confidence |-> alignment_strength,
   evidence |-> <<[type |-> "alignment_analysis",
                   aligned_entities |-> aligned_entities,
                   alignment_strength |-> alignment_strength]>>,
   relationships |-> <<>>,
   summary |-> "Strong alignment between semantic similarity and graph "
     \o "relationships found in " \o Decimal(aligned_entities) \o " cases"]

\* the body with a count over every hybrid result, not over the first five
StructuralAlignmentBodyUnsliced(hybrid_results, graph_context) ==
  LET top == hybrid_results
      Return(stopped) ==
        IF \E i \in stopped : NameRaises(graph_context[AlignmentStop(top[i], graph_context)])
        THEN [raised |-> TRUE]
        ELSE [raised |-> FALSE,
              value |->
                IF Cardinality(stopped) >= AlignmentThreshold
                THEN <<AlignmentInsight(Cardinality(stopped),
                         (Cardinality(stopped) * One)
                           \div Min(Len(hybrid_results), AlignmentResultLimit))>>
                ELSE <<>>]
  IN Return({i \in 1..Len(top) :
               /\ Get(top[i], "hybrid_score", Get(top[i], "score", 0)) > Tenths(7)
               /\ AlignmentStop(top[i], graph_context) # 0})

\* the body of _analyze_semantic_structural_alignment
StructuralAlignmentBody(hybrid_results, graph_context) ==
  LET top == Slice(hybrid_results, AlignmentResultLimit)
      Return(stopped) ==
        IF \E i \in stopped : NameRaises(graph_context[AlignmentStop(top[i], graph_context)])
        THEN [raised |-> TRUE]
        ELSE [raised |-> FALSE,
              value |->
                IF Cardinality(stopped) >= AlignmentThreshold
                THEN <<AlignmentInsight(Cardinality(stopped),
                         (Cardinality(stopped) * One)
                           \div Min(Len(hybrid_results), AlignmentResultLimit))>>
                ELSE <<>>]
  IN Return({i \in 1..Len(top) :
               /\ Get(top[i], "hybrid_score", Get(top[i], "score", 0)) > Tenths(7)
               /\ AlignmentStop(top[i], graph_context) # 0})

AnalyzeSemanticStructuralAlignment(hybrid_results, graph_context) ==
  TryExcept(StructuralAlignmentBody(hybrid_results, graph_context))

\* a synthesizer that is not called
NotCalled == [raised |-> FALSE, value |-> <<>>]

\* the five calls of _generate_graphrag_insights, in its order; an exception that
\* leaves a call leaves _generate_graphrag_insights
SynthesizerCalls(query, semantic_results, graph_context, hybrid_results, communities, hash_seed) ==
  <<IF Len(semantic_results) > 0 /\ Len(graph_context) > 0
    THEN AnalyzeCrossSourceCorrelation(semantic_results, graph_context, hash_seed)
    ELSE NotCalled,
    IF Len(communities) > 0
    THEN AnalyzeCommunityPatterns(communities, graph_context)
    ELSE NotCalled,
    AnalyzeTemporalPatterns(semantic_results, graph_context),
    PerformMultiHopReasoning(query, graph_context),
    AnalyzeSemanticStructuralAlignment(hybrid_results, graph_context)>>

\* the insights of the calls, or that an exception left one of them
CollectInsights(calls) ==
  IF \E i \in 1..Len(calls) : calls[i].raised
  THEN [raised |-> TRUE]
  ELSE [raised |-> FALSE, value |-> Concat([i \in 1..Len(calls) |-> calls[i].value])]

\* _generate_graphrag_insights
GenerateGraphragInsights(query, semantic_results, graph_context, hybrid_results, communities, hash_seed) ==
  CollectInsights(SynthesizerCalls(query, semantic_results, graph_context,
                                   hybrid_results, communities, hash_seed))

\* "name (labels)" of a graph-context entity
GraphTextContext(graph_context) ==
  [i \in 1..Len(graph_context) |->
     Format(graph_context[i].name) \o " (" \o Join(", ", graph_context[i].labels) \o ")"]

\* the loop of step 2 of process_query over the results of find_related_entities:
\* graph_context, or that a call raised
GraphContext(related) ==
  IF \E i \in 1..Len(related) : related[i].raised THEN [raised |-> TRUE]
  ELSE [raised |-> FALSE, value |-> Concat([i \in 1..Len(related) |-> related[i].value])]

\* steps 1 to 5 of process_query: the values it computes before the insights. The
\* graph store answers its queries, or fails every one of them (outage)
QueryStages(pinecone, store, account_name, query, max_hops, include_embeddings, hash_seed, outage) ==
  LET filters == IF account_name # "all" THEN [account |-> account_name] ELSE NoFilters
      Locals(semantic_results, entity_context, traversal, hybrid_results, detected) ==
        IF traversal.raised \/ detected.raised
        THEN [raised |-> TRUE]
        ELSE [raised |-> FALSE,
              store |-> detected.store,
              semantic_results |-> semantic_results,
              entity_context |-> entity_context,
              graph_context |-> traversal.value,
              hybrid_results |-> hybrid_results,
              communities |-> detected.value]
      Search(semantic_results, entity_context, traversal) ==
        Locals(semantic_results, entity_context, traversal,
               IF include_embeddings /\ Len(entity_context) > 0
               THEN HybridSearch(pinecone, query, GraphTextContext(traversal.value),
                                 HybridTopK)
               ELSE Slice(semantic_results, HybridTopK),
               DetectCommunities(store, account_name, outage))
      Traverse(semantic_results, entity_context) ==
        Search(semantic_results, entity_context,
               GraphContext([i \in 1..Len(entity_context) |->
                 FindRelatedEntities(store, account_name, entity_context[i], max_hops,
                                     outage)]))
      Seeds(semantic_results) ==
        Traverse(semantic_results, ExtractEntityContext(semantic_results, hash_seed))
  IN Seeds(SemanticSearchWith(pinecone, query, SemanticTopK, filters))

\* step 7 of process_query: the result it returns for its local variables
QueryResult(stages, insights) ==
  [insights |-> insights,
   entityCount |-> Cardinality({stages.entity_context[i] :
                                  i \in 1..Len(stages.entity_context)}),
   relationshipCount |-> Cardinality({i \in 1..Len(stages.graph_context) :
                                        "distance" \in DOMAIN stages.graph_context[i]}),
   communityCount |-> Len(stages.communities),
   semanticResults |-> Slice(stages.semantic_results, SemanticReferenceLimit),
   graphContext |-> Slice(stages.graph_context, GraphContextLimit)]

\* process_query: the except clause logs and raises again. `locals` are the local
\* variables of the coroutine when it returns, `value` is what it returns
ProcessQuery(pinecone, store, account_name, query, max_hops, include_embeddings, hash_seed, outage) ==
  LET Return(stages, insights) ==
        IF stages.raised THEN [raised |-> TRUE, store |-> store]
        ELSE IF insights.raised THEN [raised |-> TRUE, store |-> stages.store]
        ELSE [raised |-> FALSE,
              store |-> stages.store,
              locals |-> stages,
              value |-> QueryResult(stages, insights.value)]
      Insights(stages) ==
        Return(stages,
               GenerateGraphragInsights(query, stages.semantic_results,
                 stages.graph_context, stages.hybrid_results, stages.communities,
                 hash_seed))
  IN Insights(QueryStages(pinecone, store, account_name, query, max_hops,
                          include_embeddings, hash_seed, outage))

\* insight_queries of generate_account_insights; a weight is in tenths
insight_queries ==
  <<[type |-> "stakeholder_influence", weight |-> 9,
     query |-> "Who are the key decision makers and what is their influence network?"],
    [type |-> "communication_patterns", weight |-> 8,
     query |-> "What are the communication patterns and relationship dynamics?"],
    [type |-> "topic_evolution", weight |-> 7,
     query |-> "How have key topics and concerns evolved over time?"],
    [type |-> "risk_indicators", weight |-> 8,
     query |-> "What are the potential risk indicators and warning signs?"],
    [type |-> "opportunity_signals", weight |-> 9,
     query |-> "What opportunities and growth signals can be identified?"]>>

\* max_hops of the queries of generate_account_insights, and the slices of its result
InsightQueryHops == 2
TopInsightLimit == 20
SummaryInsightLimit == 5
SummaryFindingLimit == 3

\* _generate_executive_summary
GenerateExecutiveSummary(insights) ==
  IF Len(insights) = 0 THEN "No significant insights generated from GraphRAG analysis."
  ELSE LET top_insights == Slice(insights, SummaryInsightLimit)
           HasSummary(insight) == Get(insight, "summary", "") # ""
           SummaryOf(insight) == insight.summary
           insight_summaries == SelectMap(top_insights, HasSummary, SummaryOf)
       IN "GraphRAG analysis identified " \o Decimal(Len(insights))
            \o " insights across multiple dimensions. "
            \o "Key findings include: "
            \o Join("; ", Slice(insight_summaries, SummaryFindingLimit)) \o ". "
            \o "Analysis demonstrates strong cross-source correlations and "
            \o "multi-dimensional relationship patterns."

\* the multiplication by the weight done twice
WeightedInsightsTwice(insights, insight_query) ==
  [i \in 1..Len(insights) |->
     [category |-> insight_query.type] @@
     [insights[i] EXCEPT !.confidence =
        (((@ * insight_query.weight) \div 10) * insight_query.weight) \div 10]]

\* the insights of one query, weighted and given the category of the query
WeightedInsights(insights, insight_query) ==
  [i \in 1..Len(insights) |->
     [category |-> insight_query.type] @@
     [insights[i] EXCEPT !.confidence = (@ * insight_query.weight) \div 10]]

RECURSIVE RunInsightQueries(_, _, _, _, _, _)
\* the loop of generate_account_insights from query i on: the store it leaves and
\* all_insights, or that a process_query raised
RunInsightQueries(pinecone, store, account_name, hash_seed, outage, i) ==
  LET Extend(query_result, rest) ==
        IF rest.raised THEN rest
        ELSE [raised |-> FALSE, store |-> rest.store,
              value |-> WeightedInsights(query_result.value.insights, insight_queries[i])
                          \o rest.value]
      Continue(query_result) ==
        IF query_result.raised THEN [raised |-> TRUE, store |-> query_result.store]
        ELSE Extend(query_result,
                    RunInsightQueries(pinecone, query_result.store, account_name,
                                      hash_seed, outage, i + 1))
  IN IF i > Len(insight_queries) THEN [raised |-> FALSE, store |-> store, value |-> <<>>]
     ELSE Continue(ProcessQuery(pinecone, store, account_name, insight_queries[i].query,
                                InsightQueryHops, TRUE, hash_seed, outage))

\* the result of generate_account_insights for its ranked insights
AccountInsights(ranked_insights) ==
  [insights |-> Slice(ranked_insights, TopInsightLimit),
   executiveSummary |-> GenerateExecutiveSummary(ranked_insights),
   insightCategories |->
     [category \in {insight_queries[i].type : i \in 1..Len(insight_queries)} |->
        Cardinality({i \in 1..Len(ranked_insights) :
                       Get(ranked_insights[i], "category", "") = category})]]

\* generate_account_insights
GenerateAccountInsights(pinecone, store, account_name, hash_seed, outage) ==
  LET Return(all_insights) ==
        IF all_insights.raised THEN [raised |-> TRUE, store |-> all_insights.store]
        ELSE [raised |-> FALSE,
              store |-> all_insights.store,
              value |-> AccountInsights(RankAndDeduplicateInsights(all_insights.value))]
  IN Return(RunInsightQueries(pinecone, store, account_name, hash_seed, outage, 1))

\* all_insights of generate_account_insights, for the insights that its calls of
\* process_query return, one list per query
AllInsights(query_insights) ==
  Concat([i \in 1..Len(insight_queries) |->
            WeightedInsights(query_insights[i], insight_queries[i])])

\* generate_account_insights from the results of its calls of process_query on
AccountInsightsOf(query_insights) ==
  AccountInsights(RankAndDeduplicateInsights(AllInsights(query_insights)))

(***************************************************************************)
(* main.py: the operations of the service                                  *)
(*                                                                         *)
(* `services` is the set of the module's globals that are not None. An     *)
(* operation gives [status, ...]: 200 with the body it returns, or the     *)
(* status and detail of the HTTPException that leaves it, with `cause` the *)
(* exception its except clause caught. `stored` lists the writing calls to *)
(* the stores that it made. Clock readings (extractedAt, processingTime,   *)
(* ...) are left out of the bodies.                                        *)
(***************************************************************************)
ServiceNames == {"neo4j_service", "pinecone_service", "entity_extractor", "graphrag_processor"}

\* raise HTTPException(status_code=503, detail=...)
Unavailable(detail) == [exception |-> "HTTPException", status |-> 503, detail |-> detail]
\* an exception of the interpreter or of a service
Raised(exception) == [exception |-> exception]

\* except Exception as e: raise HTTPException(status_code=500, detail=...): the
\* clause catches every exception raised in the try, an HTTPException included
InternalError(detail, cause, store, stored) ==
  [status |-> 500, detail |-> detail, cause |-> cause, store |-> store, stored |-> stored]

Ok(body, store, stored) == [status |-> 200, body |-> body, store |-> store, stored |-> stored]

\* request.accountData.dict(): every collection is a key, empty by default
RequestDict(account_data) ==
  [k \in {"accountName", "emails", "calls", "stakeholders", "documents", "interactions"} |->
     Get(account_data, k, <<>>)]

\* POST /extract-entities
ExtractEntities(globals, store, account_data, extract_relationships) ==
  LET detail == "Entity extraction failed"
  IN IF "entity_extractor" \notin globals
     THEN InternalError(detail, Unavailable("Entity extractor not initialized"), store, <<>>)
     ELSE IF ExtractionRaises(RequestDict(account_data))
     THEN InternalError(detail, Raised("AttributeError"), store, <<>>)
     ELSE Ok([accountName |-> account_data.accountName,
              entities |-> ExtractFromAccountData(RequestDict(account_data),
                                                  extract_relationships)],
             store, <<>>)

\* POST /build-graph
BuildGraph(globals, store, account_data, extract_relationships) ==
  LET detail == "Graph building failed"
      Return(built) ==
        IF built.raised
        THEN InternalError(detail, Raised("Neo4jError"), built.store,
                           <<"build_account_graph">>)
        ELSE Ok([accountName |-> account_data.accountName,
                 graphStats |-> built.graph_stats],
                built.store, <<"build_account_graph">>)
  IN IF "neo4j_service" \notin globals \/ "entity_extractor" \notin globals
     THEN InternalError(detail, Unavailable("Required services not initialized"), store, <<>>)
     ELSE IF ExtractionRaises(RequestDict(account_data))
     THEN InternalError(detail, Raised("AttributeError"), store, <<>>)
     ELSE Return(BuildAccountGraph(store, account_data.accountName,
                   ExtractFromAccountData(RequestDict(account_data),
                                          extract_relationships)))

\* d.get(key) of a dict whose values are str: the value, or None
DictGet(d, key) == IF key \in DOMAIN d THEN Str(d[key]) ELSE None

\* the documents of the emails of a request, as store_embeddings and analyze_account
\* collect them (analyze_account keeps less metadata)
EmailDocuments(account_data, full) ==
  Concat([e \in 1..Len(account_data.emails) |->
    LET email == account_data.emails[e]
        messages == Get(email, "messages", <<>>)
    IN [m \in 1..Len(messages) |->
          [id |-> "email_" \o Format(DictGet(email, "thread_id")) \o "_"
                    \o Format(DictGet(messages[m], "timestamp")),
           text |-> Get(messages[m], "body", ""),
           metadata |-> IF full
                        THEN [type |-> Str("email"), account |-> Str(account_data.accountName),
                              thread_id |-> DictGet(email, "thread_id"),
                              subject |-> Str(Get(messages[m], "subject", "")),
                              timestamp |-> DictGet(messages[m], "timestamp")]
                        ELSE [type |-> Str("email"), account |-> Str(account_data.accountName),
                              thread_id |-> DictGet(email, "thread_id")]]]])

\* message.get(...) on a message that is no dict
EmailDocumentsRaise(account_data) ==
  \E e \in 1..Len(account_data.emails) :
    \E m \in 1..Len(Get(account_data.emails[e], "messages", <<>>)) :
      ~IsDict(account_data.emails[e].messages[m])

\* the documents of the calls of a request, as store_embeddings collects them
CallDocuments(account_data) ==
  [c \in 1..Len(account_data.calls) |->
     LET call == account_data.calls[c]
     IN [id |-> "call_" \o Format(DictGet(call, "call_id")),
         text |-> Join(" ", SelectMap(Get(call, "transcript", <<>>), AnyItem, TurnText)),
         metadata |-> [type |-> Str("call"), account |-> Str(account_data.accountName),
                       call_id |-> DictGet(call, "call_id"),
                       date |-> DictGet(call, "date"),
                       participants |-> Get(call, "participants", <<>>)]]]

\* turn.get(...) on a turn that is no dict
CallDocumentsRaise(account_data) ==
  \E c \in 1..Len(account_data.calls) :
    \E t \in 1..Len(Get(account_data.calls[c], "transcript", <<>>)) :
      ~IsDict(account_data.calls[c].transcript[t])

\* PineconeService.store_documents: the statistics it returns; without an index it
\* counts the documents, and a failure of the index is reported in the statistics
StoreDocuments(pinecone, documents) ==
  IF ~pinecone.initialized
  THEN [stored_count |-> Len(documents), mock_mode |-> TRUE]
  ELSE IF pinecone.query_fails
  THEN [stored_count |-> 0, error |-> "PineconeException", mock_mode |-> FALSE]
  ELSE [stored_count |-> Len(documents), total_vectors |-> Len(documents),
        mock_mode |-> FALSE]

\* POST /store-embeddings
StoreEmbeddings(globals, store, pinecone, account_data) ==
  LET detail == "Embedding storage failed"
      data == RequestDict(account_data)
      documents == EmailDocuments(data, TRUE) \o CallDocuments(data)
  IN IF "pinecone_service" \notin globals
     THEN InternalError(detail, Unavailable("Pinecone service not initialized"), store, <<>>)
     ELSE IF EmailDocumentsRaise(data) \/ CallDocumentsRaise(data)
     THEN InternalError(detail, Raised("AttributeError"), store, <<>>)
     ELSE Ok([accountName |-> account_data.accountName,
              documentsStored |-> Len(documents),
              storageStats |-> StoreDocuments(pinecone, documents)],
             store, <<"store_documents">>)

\* POST /graphrag-query: the response model keeps five fields of the result
GraphragQuery(globals, store, pinecone, account_name, query, max_hops, include_embeddings, hash_seed, outage) ==
  LET detail == "GraphRAG query failed"
      Return(result) ==
        IF result.raised
        THEN InternalError(detail, Raised("Neo4jError"), result.store, <<>>)
        ELSE Ok([insights |-> result.value.insights,
                 entityCount |-> result.value.entityCount,
                 relationshipCount |-> result.value.relationshipCount,
                 communityCount |-> result.value.communityCount],
                result.store, <<>>)
  IN IF "graphrag_processor" \notin globals
     THEN InternalError(detail, Unavailable("GraphRAG processor not initialized"), store, <<>>)
     ELSE Return(ProcessQuery(pinecone, store, account_name, query, max_hops,
                              include_embeddings, hash_seed, outage))

\* POST /analyze-account: it tests none of the globals before it uses them
AnalyzeAccount(globals, store, pinecone, account_data, hash_seed, outage) ==
  LET detail == "Account analysis failed"
      data == RequestDict(account_data)
      Return(built, insights_result) ==
        IF insights_result.raised
        THEN InternalError(detail, Raised("Neo4jError"), insights_result.store,
                           <<"build_account_graph", "store_documents">>)
        ELSE Ok([accountName |-> account_data.accountName,
                 graphStats |-> built.graph_stats,
                 storageStats |-> StoreDocuments(pinecone, EmailDocuments(data, FALSE)),
                 insights |-> insights_result.value],
                insights_result.store, <<"build_account_graph", "store_documents">>)
      Store(built) ==
        IF built.raised
        THEN InternalError(detail, Raised("Neo4jError"), built.store,
                           <<"build_account_graph">>)
        ELSE IF EmailDocumentsRaise(data) \/ "pinecone_service" \notin globals
        THEN InternalError(detail, Raised("AttributeError"), built.store,
                           <<"build_account_graph">>)
        ELSE IF "graphrag_processor" \notin globals
        THEN InternalError(detail, Raised("AttributeError"), built.store,
                           <<"build_account_graph", "store_documents">>)
        ELSE Return(built, GenerateAccountInsights(pinecone, built.store,
                                                   account_data.accountName, hash_seed,
                                                   outage))
  IN IF "entity_extractor" \notin globals
     THEN InternalError(detail, Raised("AttributeError"), store, <<>>)
     ELSE IF ExtractionRaises(data)
     THEN InternalError(detail, Raised("AttributeError"), store, <<>>)
     ELSE IF "neo4j_service" \notin globals
     THEN InternalError(detail, Raised("AttributeError"), store, <<>>)
     ELSE Store(BuildAccountGraph(store, account_data.accountName,
                                  ExtractFromAccountData(data, TRUE)))

(***************************************************************************)
(* Requests: the account data a caller can send                            *)
(***************************************************************************)
\* the most source items (stakeholders, threads, calls, ...) of one account
MaxItems == 2

Dict(fields) == [pytype |-> "dict"] @@ fields
List(items) == [pytype |-> "list", items |-> items]
\* an item that is no record: a bare string where a dict is expected
NonRecord == Str("n/a")
\* an item that is no string: an empty mapping where a str is expected
NonString == [pytype |-> "dict"]

StakeholderItems ==
  { Dict([name |-> "Jane Doe", email |-> "jane@acme.com", organization |-> "Acme"]),
    Dict([name |-> "Jane Doe", organization |-> "Beta Works", influence |-> "high"]),
    Dict([email |-> "x@y.z"]),
    NonRecord }

MessageOne ==
  Dict([from |-> Str("jane.doe@acme.com"), to |-> List(<<Str("bob@peer.io"), NonString>>),
        subject |-> "Pricing", body |-> "budget problem with Big Deal",
        timestamp |-> "t1"])
MessageTwo ==
  Dict([from |-> Str("bob@peer.io"), to |-> Str("jane.doe@acme.com"),
        body |-> "great api"])

EmailItems ==
  { Dict([messages |-> <<MessageOne>>]),
    Dict([messages |-> <<MessageTwo, NonRecord, MessageOne>>]),
    Dict([thread_id |-> "th3"]),
    NonRecord }

CallItems ==
  { Dict([call_id |-> "c1", date |-> "d1",
          participants |-> <<Str("Jane Doe"), Str("Bob Ray")>>,
          transcript |-> <<Dict([text |-> "Great demo of the api"]), Dict([speaker |-> "Bob"])>>]),
    Dict([date |-> "d1", participants |-> <<Str("")>>]),
    Dict([participants |-> <<Str("Bob Ray"), NonString>>]),
    Dict([transcript |-> <<NonRecord>>]),
    NonRecord }

InteractionItems ==
  { Dict([participants |-> <<Str("jane.doe@acme.com"), Str("Bob Ray"), NonString>>,
          summary |-> "review of security audit", date |-> "d1", type |-> "meeting",
          sentiment |-> "positive"]),
    Dict([date |-> "d1"]),
    NonRecord }

DocumentItems ==
  { Dict([id |-> "doc1", title |-> "Security Review Plan", content |-> "compliance cost"]),
    Dict([title |-> "Notes"]),
    NonRecord }

SourceKeys == <<"stakeholders", "emails", "calls", "interactions", "documents">>

SourceItems ==
  ({"stakeholders"} \X StakeholderItems) \cup ({"emails"} \X EmailItems)
    \cup ({"calls"} \X CallItems) \cup ({"interactions"} \X InteractionItems)
    \cup ({"documents"} \X DocumentItems)

\* the values of accountName; "<absent>" stands for a request without the key
AccountNames == {"<absent>", "Acme Corp"}

SeqsUpTo(S, n) == UNION {[1..k -> S] : k \in 0..n}

\* the items of seq that belong to the collection key, in order
ItemsOf(seq, key) ==
  LET IsOfKey(pair) == pair[1] = key
      ItemOf(pair) == pair[2]
  IN SelectMap(seq, IsOfKey, ItemOf)

\* the account_data dict with the given name and source items; a collection
\* without items is an absent key
AccountData(name, seq) ==
  LET present == {SourceKeys[i] : i \in {j \in 1..Len(SourceKeys) : ItemsOf(seq, SourceKeys[j]) # <<>>}}
      named == IF name = "<absent>" THEN {} ELSE {"accountName"}
  IN [k \in present \cup named |-> IF k = "accountName" THEN name ELSE ItemsOf(seq, k)]

AccountInputs ==
  {AccountData(name, seq) : name \in AccountNames, seq \in SeqsUpTo(SourceItems, MaxItems)}

\* the texts handed to _extract_topics_from_text: up to MaxTextParts parts joined by
\* a space, of up to MaxTextLen characters in all. Two parts make a sentence with two
\* pricing keywords, one holds every keyword of the category meeting, one holds two
\* keywords in upper case, one holds two capitalized phrases and one a capitalized
\* phrase of four words
MaxTextParts == 3
MaxTextLen == 64
TextParts ==
  {"We discussed pricing", "and budget concerns",
   "meeting call discussion presentation demo review", "API REVIEW",
   "Jane Doe, Acme Corp,", "New York City Hall"}
TextInputs ==
  {text \in {Join(" ", parts) : parts \in SeqsUpTo(TextParts, MaxTextParts)} :
     Len(text) <= MaxTextLen}

\* the most characters a body, transcript or content is longer than its summary limit
MaxOverLimit == 1
\* fifty characters of account talk
FillerText == "the customer asked about the budget for next year "
\* a text of n characters, n <= 400
TextOfLength(n) == Take(FillerText \o FillerText \o FillerText \o FillerText \o FillerText \o FillerText \o FillerText \o FillerText, n)
LongTextLengths == {limit + over : limit \in {EmailSummaryLimit, CallSummaryLimit}, over \in 0..MaxOverLimit}
\* an account with one email, one call and one document whose text has n characters
LongAccount(n) ==
  AccountData("Acme Corp",
    << <<"emails", Dict([messages |-> <<Dict([from |-> Str("jane.doe@acme.com"), to |-> Str("bob@peer.io"), subject |-> "Budget", body |-> TextOfLength(n), timestamp |-> "t1"])>>])>>,
       <<"calls", Dict([call_id |-> "c1", date |-> "d1", participants |-> <<Str("Jane Doe")>>, transcript |-> <<Dict([text |-> TextOfLength(n)])>>])>>,
       <<"documents", Dict([id |-> "doc1", title |-> "Plan", content |-> TextOfLength(n)])>> >>)
LongAccountInputs == {LongAccount(n) : n \in LongTextLengths}
\* the accounts handed to extract_from_account_data
ExtractorInputs == AccountInputs \cup LongAccountInputs

\* the accounts without accountName: their entity sets differ from the named ones'
\* in the account organization only
UnnamedAccountInputs == {AccountData("<absent>", seq) : seq \in SeqsUpTo(SourceItems, MaxItems)}

(***************************************************************************)
(* Requests: candidate insights, and the vector index with a graph context *)
(***************************************************************************)
\* the most candidate insights of one ranking
MaxInsights == 5

CommunityStrong ==
  "Community 1 contains 2 people and 1 organizations, indicating a strong influence network"
CommunityModerate ==
  "Community 1 contains 2 people and 1 organizations, indicating a moderate influence network"

Insight(type, confidence, summary) ==
  [type |-> type, confidence |-> confidence, evidence |-> <<>>, relationships |-> <<>>,
   summary |-> summary]

InsightInputs ==
  { Insight("community_influence", Tenths(9), CommunityStrong),
    Insight("community_influence", Tenths(6), CommunityModerate),
    Insight("temporal_evolution", Tenths(9),
            "Identified 3 timestamped interactions showing active engagement pattern"),
    Insight("temporal_evolution", Tenths(3),
            "Identified 4 timestamped interactions showing active engagement pattern"),
    Insight("multi_hop_reasoning", Tenths(6),
            "Multi-hop reasoning found 4 connected entities within 2 degrees of separation") }

\* the most matches the index holds, the most graph-context entities, the largest top_k
MaxMatches == 2
MaxContext == 2
MaxTopK == 2

Match(id, score, text) ==
  [id |-> id, score |-> score, metadata |-> [text |-> text], text |-> text]

MatchInputs ==
  { Match("doc1", Tenths(9), "Call with Jane Doe about pricing"),
    Match("doc2", Tenths(8), "Jane Doe (Person) joined Acme"),
    Match("doc3", Tenths(8), "acme renewal"),
    Match("doc4", Tenths(2), "") }

\* the index returns its matches by descending score
RankedMatches ==
  {m \in SeqsUpTo(MatchInputs, MaxMatches) :
     \A i, j \in 1..Len(m) : i < j => m[i].score >= m[j].score /\ m[i].id # m[j].id}

\* "name (labels)" of graph-context entities, as process_query builds them
ContextInputs == {"Jane Doe (Person)", "Acme (Organization, Account)", "Pricing (Topic)"}

QueryInputs == {"Who works with Jane Doe"}

\* PineconeService: initialized with an index or not, the index failing or not
PineconeInputs ==
  {[initialized |-> TRUE, query_fails |-> FALSE, matches |-> m] : m \in RankedMatches}
    \cup {[initialized |-> TRUE, query_fails |-> TRUE, matches |-> <<>>],
          [initialized |-> FALSE, query_fails |-> FALSE, matches |-> <<>>]}

(***************************************************************************)
(* Requests: the graph of an account, traversals and community detection   *)
(***************************************************************************)
\* the most transactions of build_account_graph on one store, the most coroutines
\* of detect_communities in flight, and the largest max_hops
MaxBuilds == 2
MaxTasks == 2
MaxHops == 2

GraphAccountNames == {"Acme Corp", "Beta Works"}

JaneOfAcme == Dict([name |-> "Jane Doe", email |-> "jane@acme.com", organization |-> "Acme Corp"])
ThreadOne == Dict([thread_id |-> "th1", messages |-> <<MessageOne>>])
CallOne ==
  Dict([call_id |-> "c1", date |-> "d1",
        participants |-> <<Str("jane.doe@acme.com"), Str("Bob Ray")>>,
        transcript |-> <<Dict([text |-> "Great demo of the pricing api"])>>])

\* the source items of the accounts whose graph is built
GraphSources ==
  { << <<"stakeholders", JaneOfAcme>> >>,
    << <<"emails", ThreadOne>>, <<"calls", CallOne>> >> }

\* the arguments of build_account_graph, as build_graph and analyze_account pass them
GraphInputs ==
  {[account_name |-> name,
    entities |-> ExtractFromAccountData(AccountData(name, seq), TRUE)] :
     name \in GraphAccountNames, seq \in GraphSources}

\* entity ids that a traversal starts from
SeedInputs == {"c1", "jane_doe_at_acme_com", "jane_doe", "th1"}

(***************************************************************************)
(* Requests: queries, and the index as store_embeddings fills it           *)
(***************************************************************************)
\* a document of the index as semantic_search formats it: store_documents keeps the
\* text in the metadata
Document(id, score, text, metadata) ==
  [id |-> id, score |-> score, metadata |-> [text |-> text] @@ metadata, text |-> text]

QueryMatchInputs ==
  { Document("call_c1", Tenths(9), "Great demo of the pricing api for Bob",
             [type |-> "call", account |-> "Acme Corp", call_id |-> "c1", date |-> "d1",
              participants |-> <<"jane.doe@acme.com", "Bob Ray">>]),
    Document("email_th1_t1", Hundredths(85), "budget problem with Big Deal",
             [type |-> "email", account |-> "Acme Corp", thread_id |-> "th1",
              subject |-> "Pricing", timestamp |-> "t1"]),
    Document("email_th2_t2", Tenths(8), "pricing for jane doe and support",
             [type |-> "email", account |-> "Beta Works", thread_id |-> "th2",
              subject |-> "Offer", timestamp |-> "t2"]),
    Document("call_c2", Hundredths(75), "",
             [type |-> "call", account |-> "Acme Corp", call_id |-> "c2", date |-> "d2",
              participants |-> <<"Jane Doe">>]) }

\* the index returns its matches by descending score
RankedQueryMatches ==
  {m \in SeqsUpTo(QueryMatchInputs, MaxMatches) :
     \A i, j \in 1..Len(m) : i < j => m[i].score > m[j].score}

\* an index with more documents of one account than any top_k of process_query
LargeIndexSize == 32
LargeIndex ==
  [i \in 1..LargeIndexSize |->
     Document("email_th1_t" \o Decimal(i), One - Hundredths(i), "renewal",
              [type |-> "email", account |-> "Acme Corp", thread_id |-> "th1",
               timestamp |-> "t" \o Decimal(i)])]

QueryPineconeInputs ==
  {[initialized |-> TRUE, query_fails |-> FALSE, matches |-> m] :
     m \in RankedQueryMatches \cup {LargeIndex}}
    \cup {[initialized |-> TRUE, query_fails |-> TRUE, matches |-> <<>>],
          [initialized |-> FALSE, query_fails |-> FALSE, matches |-> <<>>]}

\* the account scopes of a query
QueryAccountNames == {"Acme Corp", "all"}

(***************************************************************************)
(* Requests to the service                                                 *)
(***************************************************************************)
\* a call with a participant that is no string
CallOfNonString == Dict([call_id |-> "c3", participants |-> <<Str("Bob Ray"), NonString>>])

\* the accountData of the requests
ServiceAccountInputs ==
  {AccountData("Acme Corp", seq) :
     seq \in GraphSources \cup { << <<"calls", CallOfNonString>> >> }}

\* the index the service searches: none (mock mode), one that fails, one with documents
ServicePineconeInputs ==
  {[initialized |-> FALSE, query_fails |-> FALSE, matches |-> <<>>],
   [initialized |-> TRUE, query_fails |-> TRUE, matches |-> <<>>]}
    \cup {[initialized |-> TRUE, query_fails |-> FALSE, matches |-> m] :
            m \in {r \in RankedQueryMatches :
                     Len(r) = 2 /\ r[1].id = "call_c1" /\ r[2].id = "email_th1_t1"}}

(***************************************************************************)
(* Operations                                                              *)
(***************************************************************************)
\* every request is served on its own: no operation reads what another one left
Idle == request.op = "none"

\* EntityExtractor.extract_from_account_data
ExtractFromAccountDataCall ==
  \E account_data \in ExtractorInputs, extract_relationships \in BOOLEAN :
    /\ Idle
    /\ UNCHANGED <<neo4j, tasks, services>>
    /\ request' = [op |-> "extract_from_account_data", account_data |-> account_data,
                   extract_relationships |-> extract_relationships]
    /\ response' = IF ExtractionRaises(account_data)
                   THEN [op |-> "extract_from_account_data", raised |-> TRUE]
                   ELSE [op |-> "extract_from_account_data", raised |-> FALSE,
                         extracted |-> ExtractFromAccountData(account_data, extract_relationships)]

\* EntityExtractor._deduplicate_entities on the entities collected for an account
DeduplicateEntitiesCall ==
  \E account_data \in UnnamedAccountInputs :
    /\ Idle
    /\ UNCHANGED <<neo4j, tasks, services>>
    /\ ~ExtractionRaises(account_data)
    /\ request' = [op |-> "_deduplicate_entities",
                   entities |-> WithRelationships(CollectEntities(account_data), TRUE)]
    /\ response' = [op |-> "_deduplicate_entities", raised |-> FALSE,
                    entities |-> DeduplicateEntities(request'.entities)]

\* EntityExtractor._extract_relationships on the entities collected for an account
ExtractRelationshipsCall ==
  \E account_data \in UnnamedAccountInputs :
    /\ Idle
    /\ UNCHANGED <<neo4j, tasks, services>>
    /\ ~ExtractionRaises(account_data)
    /\ request' = [op |-> "_extract_relationships",
                   entities |-> CollectEntities(account_data)]
    /\ response' = [op |-> "_extract_relationships", raised |-> FALSE,
                    relationships |-> ExtractRelationships(request'.entities)]

\* EntityExtractor._extract_topics_from_text
ExtractTopicsFromTextCall ==
  \E text \in TextInputs :
    /\ Idle
    /\ UNCHANGED <<neo4j, tasks, services>>
    /\ request' = [op |-> "_extract_topics_from_text", text |-> text]
    /\ response' = [op |-> "_extract_topics_from_text", raised |-> FALSE,
                    topics |-> ExtractTopicsFromText(text)]

\* GraphRAGProcessor._rank_and_deduplicate_insights
RankAndDeduplicateInsightsCall ==
  \E insights \in SeqsUpTo(InsightInputs, MaxInsights) :
    /\ Idle
    /\ UNCHANGED <<neo4j, tasks, services>>
    /\ request' = [op |-> "_rank_and_deduplicate_insights", insights |-> insights]
    /\ response' = [op |-> "_rank_and_deduplicate_insights", raised |-> FALSE,
                    ranked |-> RankAndDeduplicateInsights(insights)]

\* PineconeService.hybrid_search
HybridSearchCall ==
  \E pinecone \in PineconeInputs, query \in QueryInputs,
     graph_context \in SeqsUpTo(ContextInputs, MaxContext), top_k \in 1..MaxTopK :
    /\ Idle
    /\ UNCHANGED <<neo4j, tasks, services>>
    /\ request' = [op |-> "hybrid_search", pinecone |-> pinecone, query |-> query,
                   graph_context |-> graph_context, top_k |-> top_k]
    /\ response' = [op |-> "hybrid_search", raised |-> FALSE,
                    results |-> HybridSearch(pinecone, query, graph_context, top_k)]

\* Neo4jService.connect: the driver, and the schema with or without its constraints
ConnectCall ==
  \E constraints \in BOOLEAN :
    /\ Idle
    /\ ~neo4j.driver
    /\ neo4j' = [neo4j EXCEPT !.driver = TRUE, !.constraints = constraints]
    /\ request' = [op |-> "connect"]
    /\ response' = [op |-> "connect", raised |-> FALSE]
    /\ UNCHANGED <<tasks, services>>

\* the store takes a call of the service: no coroutine is in flight, and the last
\* call was none that ends the behaviour
Ready == request.op \in {"none", "connect", "build_account_graph"} /\ tasks = <<>>

\* Neo4jService.build_account_graph; retry says that it repeats the call before it
BuildAccountGraphCall ==
  \E input \in GraphInputs :
    LET result == BuildAccountGraph(neo4j, input.account_name, input.entities)
    IN /\ Ready
       /\ neo4j.now < MaxBuilds
       /\ neo4j' = result.store
       /\ request' = [op |-> "build_account_graph", account_name |-> input.account_name,
                      entities |-> input.entities, before |-> neo4j,
                      retry |-> /\ request.op = "build_account_graph"
                                /\ request.account_name = input.account_name
                                /\ request.entities = input.entities
                                /\ ~response.raised]
       /\ response' = IF result.raised
                      THEN [op |-> "build_account_graph", raised |-> TRUE]
                      ELSE [op |-> "build_account_graph", raised |-> FALSE,
                            graph_stats |-> result.graph_stats]
       /\ UNCHANGED <<tasks, services>>

\* Neo4jService.find_related_entities
FindRelatedEntitiesCall ==
  \E account_name \in GraphAccountNames, entity_id \in SeedInputs, max_hops \in 1..MaxHops,
     query_fails \in BOOLEAN :
    LET result == FindRelatedEntities(neo4j, account_name, entity_id, max_hops, query_fails)
    IN /\ Ready
       /\ request' = [op |-> "find_related_entities", account_name |-> account_name,
                      entity_id |-> entity_id, max_hops |-> max_hops,
                      query_fails |-> query_fails]
       /\ response' = IF result.raised
                      THEN [op |-> "find_related_entities", raised |-> TRUE]
                      ELSE [op |-> "find_related_entities", raised |-> FALSE,
                            related_entities |-> result.value]
       /\ UNCHANGED <<neo4j, tasks, services>>

\* Neo4jService.detect_communities is called: a coroutine starts (the session is
\* opened; without a driver the call raises)
DetectCommunitiesCall ==
  \E account_name \in GraphAccountNames :
    /\ request.op \in {"connect", "build_account_graph", "detect_communities"}
    /\ neo4j.driver
    /\ Len(tasks) < MaxTasks
    /\ tasks' = Append(tasks, NewTask(account_name))
    /\ request' = [op |-> "detect_communities"]
    /\ response' = [op |-> "detect_communities"]
    /\ UNCHANGED <<neo4j, services>>

\* a coroutine of detect_communities runs to its next await, or returns
DetectCommunitiesAwait ==
  \E t \in 1..Len(tasks) :
    LET next == DetectCommunitiesStep(neo4j, tasks[t])
    IN /\ tasks[t].pc # "done"
       /\ neo4j' = next.store
       /\ tasks' = [tasks EXCEPT ![t] = next.task]
       /\ UNCHANGED <<request, response, services>>

\* the nodes of the store that are accounts
AccountNodes(store) == {i \in 1..Len(store.nodes) : store.nodes[i].label = "Account"}

\* GraphRAGProcessor.process_query, asked of a store that holds at most one account
ProcessQueryCall ==
  /\ Ready
  /\ Cardinality(AccountNodes(neo4j)) <= 1
  /\ \E pinecone \in QueryPineconeInputs, account_name \in QueryAccountNames,
        query \in QueryInputs, max_hops \in 1..MaxHops, include_embeddings \in BOOLEAN,
        hash_seed \in HashSeeds, outage \in BOOLEAN :
       \E result \in {ProcessQuery(pinecone, neo4j, account_name, query, max_hops,
                                   include_embeddings, hash_seed, outage)} :
          /\ neo4j' = result.store
          /\ request' = [op |-> "process_query", pinecone |-> pinecone,
                         account_name |-> account_name, query |-> query,
                         max_hops |-> max_hops, include_embeddings |-> include_embeddings,
                         hash_seed |-> hash_seed, outage |-> outage]
          /\ response' = IF result.raised
                         THEN [op |-> "process_query", raised |-> TRUE]
                         ELSE [op |-> "process_query", raised |-> FALSE,
                               locals |-> result.locals, value |-> result.value]
          /\ UNCHANGED <<tasks, services>>

\* GraphRAGProcessor._generate_graphrag_insights, on the arguments that process_query
\* computes for a query of an account with hybrid search
GenerateGraphragInsightsCall ==
  /\ Ready
  /\ Cardinality(AccountNodes(neo4j)) <= 1
  /\ \E pinecone \in QueryPineconeInputs, account_name \in GraphAccountNames,
        query \in QueryInputs, max_hops \in 1..MaxHops, hash_seed \in HashSeeds :
       \E stages \in {QueryStages(pinecone, neo4j, account_name, query, max_hops, TRUE,
                                  hash_seed, FALSE)} :
       \E result \in {IF stages.raised THEN [raised |-> TRUE]
                      ELSE GenerateGraphragInsights(query, stages.semantic_results,
                             stages.graph_context, stages.hybrid_results, stages.communities,
                             hash_seed)} :
          /\ ~stages.raised
          /\ request' = [op |-> "_generate_graphrag_insights", query |-> query,
                         semantic_results |-> stages.semantic_results,
                         graph_context |-> stages.graph_context,
                         hybrid_results |-> stages.hybrid_results,
                         communities |-> stages.communities,
                         hash_seed |-> hash_seed]
          /\ response' = IF result.raised
                         THEN [op |-> "_generate_graphrag_insights", raised |-> TRUE]
                         ELSE [op |-> "_generate_graphrag_insights", raised |-> FALSE,
                               insights |-> result.value]
          /\ UNCHANGED <<neo4j, tasks, services>>

\* the communities handed to _analyze_community_patterns on their own: up to
\* MaxCommunities communities, each of one of the sizes, in the shape that
\* detect_communities returns (people and organizations in turn)
MaxCommunities == 4
CommunitySizes == {2, 3, 6}
CommunityMember(c, j) ==
  [id |-> Str("m" \o Decimal(c) \o "_" \o Decimal(j)),
   name |-> Str("Member " \o Decimal(j)),
   labels |-> <<IF j % 2 = 1 THEN "Person" ELSE "Organization">>,
   properties |-> [id |-> "m" \o Decimal(c) \o "_" \o Decimal(j)]]
CommunityOf(c, size) == [id |-> c, members |-> [j \in 1..size |-> CommunityMember(c, j)]]

\* GraphRAGProcessor._analyze_community_patterns
AnalyzeCommunityPatternsCall ==
  \E sizes \in SeqsUpTo(CommunitySizes, MaxCommunities) :
    \E communities \in {[c \in 1..Len(sizes) |-> CommunityOf(c, sizes[c])]} :
    \E result \in {AnalyzeCommunityPatterns(communities, <<>>)} :
      /\ Idle
      /\ request' = [op |-> "_analyze_community_patterns", communities |-> communities]
      /\ response' = [op |-> "_analyze_community_patterns", raised |-> result.raised,
                      insights |-> result.value]
      /\ UNCHANGED <<neo4j, tasks, services>>

\* the insights that the calls of process_query return to generate_account_insights:
\* a query returns none, one or MaxQueryInsights insights. The first insight of a
\* query is the same finding for every query, the others are findings of that query
\* alone, with the confidences of the synthesizers in turn
MaxQueryInsights == 5
QueryInsightCounts == {0, 1, MaxQueryInsights}
QueryInsight(i, j) ==
  IF j = 1
  THEN Insight("temporal_evolution", Tenths(7),
               "Identified 3 timestamped interactions showing active engagement pattern")
  ELSE Insight("community_influence", Tenths(6 + 2 * ((i + j) % 3)),
               "Community " \o Decimal(10 * i + j) \o " contains 2 people and 1 organizations")
QueryInsights(counts) ==
  [i \in 1..Len(insight_queries) |-> [j \in 1..counts[i] |-> QueryInsight(i, j)]]

\* GraphRAGProcessor.generate_account_insights, for the insights that its five calls
\* of process_query return (each call leaves the graph store as it found it)
GenerateAccountInsightsCall ==
  \E counts \in [1..Len(insight_queries) -> QueryInsightCounts] :
    \E query_insights \in {QueryInsights(counts)} :
    \E result \in {AccountInsightsOf(query_insights)} :
      /\ Idle
      /\ request' = [op |-> "generate_account_insights", query_insights |-> query_insights]
      /\ response' = [op |-> "generate_account_insights", raised |-> FALSE,
                      value |-> result]
      /\ UNCHANGED <<neo4j, tasks, services>>

\* the most hybrid results handed to _analyze_semantic_structural_alignment
MaxHybridHits == 6
\* the i-th hybrid result: the odd ones name a person, the even ones an organization
AlignmentHit(i, score) == [id |-> "doc" \o Decimal(i), text |-> IF i % 2 = 1 THEN "Call with Jane Doe" ELSE "Demo for Acme", hybrid_score |-> score]
ContextEntity(name, distance) == [id |-> Str(ReplaceSpace(Lower(name))), name |-> Str(name), labels |-> <<"Person">>, distance |-> distance]
AlignmentContexts == {<<>>, <<ContextEntity("Jane Doe", 1)>>, <<ContextEntity("Jane Doe", 3)>>, <<ContextEntity("Bob", 1), ContextEntity("Acme", 2)>>, <<ContextEntity("Acme", 1), ContextEntity("Jane Doe", 2)>>}

\* GraphRAGProcessor._analyze_semantic_structural_alignment
AnalyzeSemanticStructuralAlignmentCall ==
  \E n \in 0..MaxHybridHits, graph_context \in AlignmentContexts :
    \E scores \in [1..n -> {Tenths(7), Tenths(9)}] :
      \E hybrid_results \in {[i \in 1..n |-> AlignmentHit(i, scores[i])]} :
        \E result \in {AnalyzeSemanticStructuralAlignment(hybrid_results, graph_context)} :
          /\ Idle
          /\ request' = [op |-> "_analyze_semantic_structural_alignment",
                         hybrid_results |-> hybrid_results, graph_context |-> graph_context]
          /\ response' = [op |-> "_analyze_semantic_structural_alignment",
                          raised |-> result.raised, insights |-> result.value]
          /\ UNCHANGED <<neo4j, tasks, services>>

\* the most entities of a graph context handed to _analyze_cross_source_correlation
MaxCorrelated == 6
CorrelationNames == <<"Jane Doe", "Bob", "Pricing", "Acme", "Support", "Budget", "Renewal">>
CorrelationTexts == {"Jane Doe and Bob of Acme", "pricing, support and budget for jane doe of acme", "renewal"}

\* GraphRAGProcessor._analyze_cross_source_correlation
AnalyzeCrossSourceCorrelationCall ==
  \E n \in 0..MaxCorrelated, first \in 1..2, texts \in SeqsUpTo(CorrelationTexts, 2), hash_seed \in HashSeeds :
    \E semantic_results \in {[r \in 1..Len(texts) |-> [id |-> "doc" \o Decimal(r), text |-> texts[r]]]} :
      \E graph_context \in {[e \in 1..n |-> ContextEntity(CorrelationNames[((first + e - 2) % Len(CorrelationNames)) + 1], 1)]} :
        \E result \in {AnalyzeCrossSourceCorrelation(semantic_results, graph_context, hash_seed)} :
          /\ Idle
          /\ request' = [op |-> "_analyze_cross_source_correlation",
                         semantic_results |-> semantic_results, graph_context |-> graph_context]
          /\ response' = [op |-> "_analyze_cross_source_correlation",
                          raised |-> result.raised, insights |-> result.value]
          /\ UNCHANGED <<neo4j, tasks, services>>

\* the longest graph context handed to _perform_multi_hop_reasoning on its own
MaxHopContext == 6

\* the entity dict of find_related_entities for the i-th entity of a context
HopEntity(i, distance) ==
  [id |-> Str("e" \o Decimal(i)), name |-> Str("Entity " \o Decimal(i)),
   labels |-> <<"Person">>, properties |-> [id |-> "e" \o Decimal(i)],
   distance |-> distance]

\* GraphRAGProcessor._perform_multi_hop_reasoning, on a graph context of entities at
\* the given distances
PerformMultiHopReasoningCall ==
  \E query \in QueryInputs, distances \in SeqsUpTo(0..MaxHops, MaxHopContext) :
    \E graph_context \in {[i \in 1..Len(distances) |-> HopEntity(i, distances[i])]} :
    \E result \in {PerformMultiHopReasoning(query, graph_context)} :
      /\ Idle
      /\ request' = [op |-> "_perform_multi_hop_reasoning", query |-> query,
                     graph_context |-> graph_context]
      /\ response' = [op |-> "_perform_multi_hop_reasoning", raised |-> result.raised,
                      insights |-> result.value]
      /\ UNCHANGED <<neo4j, tasks, services>>

\* lifespan: the globals are set when the application starts
LifespanCall ==
  \E constraints \in BOOLEAN :
    /\ Idle
    /\ services = {}
    /\ ~neo4j.driver
    /\ services' = ServiceNames
    /\ neo4j' = [neo4j EXCEPT !.driver = TRUE, !.constraints = constraints]
    /\ request' = [op |-> "lifespan"]
    /\ response' = [op |-> "lifespan"]
    /\ UNCHANGED tasks

\* the service takes a request: at any time before it has answered one, and once
\* more after it has built a graph
Serving ==
  \/ request.op \in {"none", "lifespan"}
  \/ request.op = "build_graph" /\ response.status = 200

\* the response of an operation, without the store it leaves
Answer(op, result) == [k \in {"op"} \cup (DOMAIN result \ {"store"}) |->
                        IF k = "op" THEN op ELSE result[k]]

\* POST /extract-entities
ExtractEntitiesCall ==
  /\ Serving
  /\ \E account_data \in ServiceAccountInputs, extract_relationships \in BOOLEAN :
       \E result \in {ExtractEntities(services, neo4j, account_data, extract_relationships)} :
          /\ neo4j' = result.store
          /\ request' = [op |-> "extract_entities", accountData |-> account_data,
                         extractRelationships |-> extract_relationships]
          /\ response' = Answer("extract_entities", result)
          /\ UNCHANGED <<tasks, services>>

\* POST /build-graph
BuildGraphCall ==
  /\ Serving
  /\ request.op # "build_graph"
  /\ \E account_data \in ServiceAccountInputs, extract_relationships \in BOOLEAN :
       \E result \in {BuildGraph(services, neo4j, account_data, extract_relationships)} :
          /\ neo4j' = result.store
          /\ request' = [op |-> "build_graph", accountData |-> account_data,
                         extractRelationships |-> extract_relationships]
          /\ response' = Answer("build_graph", result)
          /\ UNCHANGED <<tasks, services>>

\* POST /store-embeddings
StoreEmbeddingsCall ==
  /\ Serving
  /\ \E account_data \in ServiceAccountInputs, pinecone \in ServicePineconeInputs :
       \E result \in {StoreEmbeddings(services, neo4j, pinecone, account_data)} :
          /\ neo4j' = result.store
          /\ request' = [op |-> "store_embeddings", accountData |-> account_data,
                         pinecone |-> pinecone]
          /\ response' = Answer("store_embeddings", result)
          /\ UNCHANGED <<tasks, services>>

\* POST /graphrag-query
GraphragQueryCall ==
  /\ Serving
  /\ \E pinecone \in ServicePineconeInputs, query \in QueryInputs, max_hops \in 1..MaxHops,
        include_embeddings \in BOOLEAN, hash_seed \in HashSeeds, outage \in BOOLEAN :
       \E result \in {GraphragQuery(services, neo4j, pinecone, "Acme Corp", query, max_hops,
                                    include_embeddings, hash_seed, outage)} :
          /\ neo4j' = result.store
          /\ request' = [op |-> "graphrag_query", pinecone |-> pinecone,
                         accountName |-> "Acme Corp", query |-> query, maxHops |-> max_hops,
                         includeEmbeddings |-> include_embeddings, hash_seed |-> hash_seed,
                         outage |-> outage]
          /\ response' = Answer("graphrag_query", result)
          /\ UNCHANGED <<tasks, services>>

\* POST /analyze-account; the analysis of a store that holds an account twice is
\* left out
AnalyzeAccountCall ==
  /\ Serving
  /\ neo4j.constraints \/ neo4j.nodes = <<>>
  /\ \E account_data \in ServiceAccountInputs, pinecone \in ServicePineconeInputs,
        hash_seed \in HashSeeds, outage \in BOOLEAN :
       \E result \in {AnalyzeAccount(services, neo4j, pinecone, account_data, hash_seed, outage)} :
          /\ neo4j' = result.store
          /\ request' = [op |-> "analyze_account", accountData |-> account_data,
                         pinecone |-> pinecone, hash_seed |-> hash_seed, outage |-> outage]
          /\ response' = Answer("analyze_account", result)
          /\ UNCHANGED <<tasks, services>>

\* the state after the module is loaded: no service object exists, the driver is
\* not connected, the store is empty and no coroutine is running
Init ==
  /\ request = [op |-> "none"]
  /\ response = [op |-> "none"]
  /\ neo4j = [driver |-> FALSE, nodes |-> <<>>, rels |-> <<>>, catalog |-> {}, now |-> 0,
              constraints |-> TRUE]
  /\ tasks = <<>>
  /\ services = {}

\* the entity extractor
NextExtractor ==
  \/ ExtractFromAccountDataCall
  \/ DeduplicateEntitiesCall
  \/ ExtractRelationshipsCall

SpecExtractor == Init /\ [][NextExtractor]_vars

\* the topics of a text
NextTopics == ExtractTopicsFromTextCall

SpecTopics == Init /\ [][NextTopics]_vars

\* the insight ranker
NextInsights == RankAndDeduplicateInsightsCall

SpecInsights == Init /\ [][NextInsights]_vars

\* community patterns over the communities of the graph store
NextCommunities == AnalyzeCommunityPatternsCall

SpecCommunities == Init /\ [][NextCommunities]_vars

\* the account insights over the results of the analytical queries
NextAccountInsights == GenerateAccountInsightsCall

SpecAccountInsights == Init /\ [][NextAccountInsights]_vars

\* the operations that return insights, and the synthesizers that compute a confidence
NextConfidence ==
  \/ ConnectCall
  \/ BuildAccountGraphCall
  \/ ProcessQueryCall
  \/ GenerateAccountInsightsCall
  \/ AnalyzeCrossSourceCorrelationCall
  \/ AnalyzeCommunityPatternsCall
  \/ AnalyzeSemanticStructuralAlignmentCall

SpecConfidence == Init /\ [][NextConfidence]_vars

\* multi-hop reasoning over a graph context
NextReasoning == PerformMultiHopReasoningCall

SpecReasoning == Init /\ [][NextReasoning]_vars

\* the hybrid retriever
NextHybrid == HybridSearchCall

SpecHybrid == Init /\ [][NextHybrid]_vars

\* the graph store and the calls of Neo4jService
NextGraph ==
  \/ ConnectCall
  \/ BuildAccountGraphCall
  \/ FindRelatedEntitiesCall
  \/ DetectCommunitiesCall
  \/ DetectCommunitiesAwait

SpecGraph == Init /\ [][NextGraph]_vars

\* the processor on the graph store
NextQuery ==
  \/ ConnectCall
  \/ BuildAccountGraphCall
  \/ ProcessQueryCall
  \/ GenerateGraphragInsightsCall

SpecQuery == Init /\ [][NextQuery]_vars

\* the operations of the service
NextService ==
  \/ LifespanCall
  \/ ExtractEntitiesCall
  \/ BuildGraphCall
  \/ StoreEmbeddingsCall
  \/ GraphragQueryCall
  \/ AnalyzeAccountCall

SpecService == Init /\ [][NextService]_vars


(***************************************************************************)
(* Properties of the entity extractor                                      *)
(***************************************************************************)
EntityBuckets == {"people", "organizations", "topics", "events"}

\* extract_from_account_data has returned
Extracted == response.op = "extract_from_account_data" /\ ~response.raised

HasSource(key) == key \in DOMAIN request.account_data

\* C1: every entity that extract_from_account_data returns, in every bucket, has a
\* confidence in [0,1] and a non-empty id.
C1_EntitiesWellFormed ==
  Extracted =>
    \A b \in EntityBuckets : \A i \in 1..Len(response.extracted[b]) :
      LET entity == response.extracted[b][i]
      IN entity.confidence >= 0 /\ entity.confidence <= One /\ entity.id # ""

\* C2: no bucket of the result of extract_from_account_data holds two entities with
\* the same id.
C2_NoDuplicateIds ==
  Extracted =>
    \A b \in EntityBuckets : \A i, j \in 1..Len(response.extracted[b]) :
      i # j => response.extracted[b][i].id # response.extracted[b][j].id

\* a run in which a stakeholder and a call participant have the same id, and an email
\* thread names the same two addresses in two messages
C2_Witness ==
  /\ Extracted
  /\ HasSource("stakeholders") /\ HasSource("calls")
  /\ \E i \in 1..Len(request.account_data.stakeholders) :
       \E j \in 1..Len(request.account_data.calls) :
         LET st == request.account_data.stakeholders[i]
             call == request.account_data.calls[j]
         IN /\ IsDict(st) /\ IsDict(call)
            /\ Get(st, "name", "") = "Jane Doe"
            /\ \E k \in 1..Len(Get(call, "participants", <<>>)) :
                 call.participants[k] = Str("Jane Doe")
  /\ Cardinality({i \in 1..Len(response.extracted.people) :
                    response.extracted.people[i].id = "jane_doe"}) = 1

\* C3: _deduplicate_entities is idempotent and no bucket of its result is longer than
\* the bucket it was computed from.
C3_DedupeIdempotent ==
  response.op = "_deduplicate_entities" =>
    /\ DeduplicateEntities(response.entities) = response.entities
    /\ \A b \in EntityBuckets : Len(response.entities[b]) <= Len(request.entities[b])

\* a call of _deduplicate_entities that drops three entities of one bucket
C3_Witness ==
  /\ response.op = "_deduplicate_entities"
  /\ Len(response.entities.people) + 3 <= Len(request.entities.people)

\* C4: the relationships that extract_from_account_data returns are the relationships
\* inferred from the deduplicated buckets returned with them.
C4_RelationshipsOfDeduplicated ==
  (Extracted /\ request.extract_relationships) =>
    response.extracted.relationships = ExtractRelationships(response.extracted)

\* C5: extract_from_account_data never raises, whatever items the collections hold.
C5_ExtractionTotal ==
  response.op = "extract_from_account_data" => ~response.raised

\* C6: the account Organization (type primary_account, confidence 1.0) is in every
\* result; an account without stakeholders, emails, calls, interactions and documents
\* yields that one Organization, no other entity and no relationship.
C6_AccountOrganization ==
  Extracted =>
    LET account_name == Get(request.account_data, "accountName", "unknown")
        orgs == response.extracted.organizations
        IsAccount(o) == /\ o.name = account_name
                        /\ o.type = "primary_account"
                        /\ o.confidence = One
    IN /\ \E i \in 1..Len(orgs) : IsAccount(orgs[i])
       /\ (\A i \in 1..Len(SourceKeys) : ~HasSource(SourceKeys[i])) =>
            /\ Len(orgs) = 1
            /\ response.extracted.people = <<>>
            /\ response.extracted.topics = <<>>
            /\ response.extracted.events = <<>>
            /\ response.extracted.relationships = <<>>

\* the extraction of an account without any source data, relationships requested
C6_Witness ==
  /\ Extracted
  /\ request.extract_relationships
  /\ \A i \in 1..Len(SourceKeys) : ~HasSource(SourceKeys[i])
  /\ Len(response.extracted.organizations) = 1

\* C7: _extract_relationships yields, for every Person with a non-empty organization,
\* a WORKS_FOR relationship of strength 0.8 from the person's id to the lower-cased,
\* underscore-joined organization, and no WORKS_FOR for any other Person.
C7_WorksFor ==
  response.op = "_extract_relationships" =>
    LET people == request.entities.people
        rels == response.relationships
        Employed(p) == "organization" \in DOMAIN p /\ p.organization # ""
        Matches(r, p) == /\ r.type = "WORKS_FOR"
                         /\ r.source = p.id
                         /\ r.target = ReplaceSpace(Lower(p.organization))
                         /\ r.strength = (8 * One) \div 10
        employed == {i \in 1..Len(people) : Employed(people[i])}
        works_for == {j \in 1..Len(rels) : rels[j].type = "WORKS_FOR"}
    IN /\ \A i \in employed : \E j \in works_for : Matches(rels[j], people[i])
       /\ \A j \in works_for : \E i \in employed : Matches(rels[j], people[i])
       /\ Cardinality(works_for) = Cardinality(employed)

\* people with an organization of two capitalized words and without the attribute,
\* and the relationship of the first
C7_Witness ==
  /\ response.op = "_extract_relationships"
  /\ \E i, j \in 1..Len(request.entities.people) :
       /\ Get(request.entities.people[i], "organization", "") = "Beta Works"
       /\ "organization" \notin DOMAIN request.entities.people[j]
  /\ \E j \in 1..Len(response.relationships) :
       /\ response.relationships[j].type = "WORKS_FOR"
       /\ response.relationships[j].source = "jane_doe"
       /\ response.relationships[j].target = "beta_works"

(***************************************************************************)
(* Properties of the insight ranker                                        *)
(***************************************************************************)
RankedInsights == response.op = "_rank_and_deduplicate_insights"

\* the (type, first 50 characters of the summary) pair of an insight
InsightPair(insight) == <<insight.type, SubSeq(insight.summary, 1, 50)>>

\* the index of the first insight of the input that is this one
FirstIndex(insight) ==
  CHOOSE k \in 1..Len(request.insights) :
    /\ request.insights[k] = insight
    /\ \A m \in 1..(k - 1) : request.insights[m] # insight

\* C8: the result of _rank_and_deduplicate_insights is in descending order of
\* confidence, and two insights of it with the same confidence are in input order.
C8_RankedStable ==
  RankedInsights =>
    \A i, j \in 1..Len(response.ranked) :
      i < j =>
        /\ response.ranked[i].confidence >= response.ranked[j].confidence
        /\ response.ranked[i].confidence = response.ranked[j].confidence =>
             FirstIndex(response.ranked[i]) < FirstIndex(response.ranked[j])

\* a ranking that moves a later insight to the front and keeps a tie of two others
C8_Witness ==
  /\ RankedInsights
  /\ Len(response.ranked) >= 3
  /\ response.ranked[1] # request.insights[1]
  /\ \E i \in 1..(Len(response.ranked) - 1) :
       response.ranked[i].confidence = response.ranked[i + 1].confidence

\* C9: the result holds, for every (type, summary[:50]) pair of the input, exactly the
\* first insight of the input with that pair, and nothing else.
C9_FirstOfEachPair ==
  RankedInsights =>
    LET input == request.insights
        output == response.ranked
        pairs == {InsightPair(input[k]) : k \in 1..Len(input)}
        First(pair) == CHOOSE k \in 1..Len(input) :
                         /\ InsightPair(input[k]) = pair
                         /\ \A m \in 1..(k - 1) : InsightPair(input[m]) # pair
    IN /\ Len(output) = Cardinality(pairs)
       /\ \A pair \in pairs : \E i \in 1..Len(output) : output[i] = input[First(pair)]

\* five candidates of confidence 0.9, 0.9, 0.6, 0.3, 0.9, two of the 0.9 with the same
\* pair: four insights come out, the first of confidence 0.9
C9_Witness ==
  /\ RankedInsights
  /\ Len(request.insights) = 5
  /\ [k \in 1..5 |-> request.insights[k].confidence]
       = <<(9 * One) \div 10, (9 * One) \div 10, (6 * One) \div 10, (3 * One) \div 10,
           (9 * One) \div 10>>
  /\ InsightPair(request.insights[1]) = InsightPair(request.insights[5])
  /\ Len(response.ranked) = 4
  /\ response.ranked[1].confidence = (9 * One) \div 10

(***************************************************************************)
(* Properties of the hybrid retriever                                      *)
(***************************************************************************)
\* C10: every hit of hybrid_search has hybrid_score = 0.7*score + 0.3*context_relevance
\* with a context_relevance in [0,1].
C10_HybridScore ==
  response.op = "hybrid_search" =>
    \A i \in 1..Len(response.results) :
      LET hit == response.results[i]
      IN /\ 10 * hit.hybrid_score = 7 * hit.score + 3 * hit.context_relevance
         /\ hit.context_relevance >= 0
         /\ hit.context_relevance <= One

(***************************************************************************)
(* Properties of process_query and of the insight synthesizers             *)
(***************************************************************************)
QueryAnswered == request.op = "process_query"

\* C11: a failure of a retrieval-stage call never leaves process_query: with the
\* driver connected, a query answers (it does not raise) even when the index or the
\* graph store fails its queries, and its semantic results are those of the search
C11_RetrievalFailureContained ==
  (QueryAnswered /\ neo4j.driver /\ (request.outage \/ request.pinecone.query_fails)) =>
    /\ ~response.raised
    /\ response.value.semanticResults
         = Slice(SemanticSearchWith(request.pinecone, request.query, SemanticTopK,
                                    IF request.account_name # "all"
                                    THEN [account |-> request.account_name]
                                    ELSE NoFilters),
                 SemanticReferenceLimit)

InsightsGenerated == request.op = "_generate_graphrag_insights"

\* what a synthesizer contributes when it is called with the arguments of the
\* request: the insights of its body, none if the body raises
Contribution(called, body) == IF called /\ ~body.raised THEN body.value ELSE <<>>

\* C12: _generate_graphrag_insights does not raise, and it returns, in order, what
\* each of the five synthesizers produces on its own; a synthesizer in which an
\* exception is raised contributes nothing and changes nothing of the others
C12_SynthesizerFailureIsolated ==
  InsightsGenerated =>
    /\ ~response.raised
    /\ response.insights =
         Contribution(Len(request.semantic_results) > 0 /\ Len(request.graph_context) > 0,
                      CrossSourceCorrelationBody(request.semantic_results,
                                                 request.graph_context, request.hash_seed))
         \o Contribution(Len(request.communities) > 0,
                         CommunityPatternsBody(request.communities, request.graph_context))
         \o Contribution(TRUE, TemporalPatternsBody(request.semantic_results,
                                                    request.graph_context))
         \o Contribution(TRUE, MultiHopReasoningBody(request.query, request.graph_context))
         \o Contribution(TRUE, StructuralAlignmentBody(request.hybrid_results,
                                                       request.graph_context))

\* an exception is raised in the cross-source synthesizer (an Event of the graph
\* context has no name), and another synthesizer's insight is returned
C12_Witness ==
  /\ InsightsGenerated
  /\ ~response.raised
  /\ Len(request.semantic_results) > 0
  /\ Len(request.graph_context) > 0
  /\ CrossSourceCorrelationBody(request.semantic_results, request.graph_context,
                                request.hash_seed).raised
  /\ \E i \in 1..Len(response.insights) : response.insights[i].type = "multi_hop_reasoning"


\* C13: an operation of the service that finds a collaborator it requires not
\* initialized answers with the status 503 (service unavailable) and has made no
\* call that writes to a store.
C13_UnavailableIs503 ==
  LET required ==
        [extract_entities |-> {"entity_extractor"},
         build_graph |-> {"neo4j_service", "entity_extractor"},
         store_embeddings |-> {"pinecone_service"},
         graphrag_query |-> {"graphrag_processor"},
         analyze_account |-> ServiceNames]
  IN (request.op \in DOMAIN required /\ ~(required[request.op] \subseteq services)) =>
       /\ response.status = 503
       /\ response.stored = <<>>


\* C14: a call of build_account_graph that repeats the successful call before it
\* (same account name, same entities) succeeds and leaves the nodes and the
\* relationships of the first call, apart from their timestamps, with exactly one
\* Account node of the account.
C14_BuildIdempotent ==
  LET Timeless(props) ==
        [k \in DOMAIN props \ {"created_at", "updated_at"} |-> props[k]]
      Nodes(store) ==
        [i \in 1..Len(store.nodes) |->
           [label |-> store.nodes[i].label, props |-> Timeless(store.nodes[i].props)]]
      Rels(store) ==
        [i \in 1..Len(store.rels) |->
           [store.rels[i] EXCEPT !.props = Timeless(@)]]
  IN (request.op = "build_account_graph" /\ request.retry) =>
       /\ ~response.raised
       /\ Nodes(neo4j) = Nodes(request.before)
       /\ Rels(neo4j) = Rels(request.before)
       /\ Cardinality({i \in AccountNodes(neo4j) :
                         NodeGet(neo4j.nodes[i], "name") = Str(request.account_name)}) = 1


\* C15: when the coroutines of detect_communities that interleave are all for the
\* same account, each one that has returned has returned the communities that
\* detect_communities returns when it runs alone on the store.
C15_DetectCommunitiesIsolated ==
  \A t \in 1..Len(tasks) :
    (/\ tasks[t].pc = "done"
     /\ \A u \in 1..Len(tasks) : tasks[u].account_name = tasks[t].account_name) =>
      tasks[t].result =
        DetectCommunities([neo4j EXCEPT !.catalog = {}], tasks[t].account_name, FALSE).value


\* C16: when process_query has found no graph context, its hybrid results are the
\* first HybridTopK of its semantic results, in their order and unchanged.
C16_NoContextSemanticOnly ==
  (QueryAnswered /\ ~response.raised /\ response.locals.graph_context = <<>>) =>
    response.locals.hybrid_results = Slice(response.locals.semantic_results, HybridTopK)


RECURSIVE HopCount(_, _, _, _)
\* the breadth-first hop count of a node from a set of nodes over the traversed
\* relationship types (in either direction); -1 when the node is not reachable
HopCount(store, reached, node, hops) ==
  LET Grown(neighbours) ==
        IF neighbours \subseteq reached THEN -1
        ELSE HopCount(store, reached \cup neighbours, node, hops + 1)
  IN IF node \in reached THEN hops
     ELSE Grown({n \in 1..Len(store.nodes) :
            \E i \in 1..Len(store.rels) :
              /\ store.rels[i].type \in TraversalTypes
              /\ \/ store.rels[i].source \in reached /\ store.rels[i].target = n
                 \/ store.rels[i].target \in reached /\ store.rels[i].source = n})

\* C17: every hit that find_related_entities returns carries as its distance the
\* breadth-first hop count of that entity from the seed entity: 0 for the seed
\* itself, the hop count (at most max_hops) for every other entity
C17_DistanceIsHopCount ==
  LET Seeds(start) == {start[j] : j \in 1..Len(start)}
      Hit(entity, seeds) ==
        \E n \in 1..Len(neo4j.nodes) :
          /\ neo4j.nodes[n].label = entity.labels[1]
          /\ neo4j.nodes[n].props = entity.properties
          /\ entity.distance = HopCount(neo4j, seeds, n, 0)
          /\ entity.distance <= request.max_hops
  IN (request.op = "find_related_entities" /\ ~response.raised) =>
       \A k \in 1..Len(response.related_entities) :
         Hit(response.related_entities[k],
             Seeds(StartNodes(neo4j, request.account_name, request.entity_id)))


\* C18: _perform_multi_hop_reasoning emits exactly one multi_hop_reasoning insight
\* (confidence 0.6, at most 5 relationships, each CONNECTED_AT_HOP_<n> with the
\* entity's distance n) if and only if the graph context holds more than one distinct
\* distance, its evidence reports as max_hops the largest distance present, and
\* otherwise it emits nothing
C18_MultiHopInsight ==
  LET Present(graph_context) ==
        {graph_context[i].distance : i \in 1..Len(graph_context)}
      Emitted(graph_context, present, insights) ==
        /\ Len(insights) = 1
        /\ insights[1].type = "multi_hop_reasoning"
        /\ insights[1].confidence * 10 = 6 * One
        /\ Len(insights[1].evidence) = 1
        /\ insights[1].evidence[1].max_hops \in present
        /\ \A d \in present : d <= insights[1].evidence[1].max_hops
        /\ Len(insights[1].relationships) <= 5
        /\ Len(insights[1].relationships) = IF Len(graph_context) < 5
                                            THEN Len(graph_context) ELSE 5
        /\ \A i \in 1..Len(insights[1].relationships) :
             /\ insights[1].relationships[i].target = graph_context[i].id
             /\ insights[1].relationships[i].type =
                  "CONNECTED_AT_HOP_" \o Decimal(graph_context[i].distance)
  IN request.op = "_perform_multi_hop_reasoning" =>
       /\ ~response.raised
       /\ IF Cardinality(Present(request.graph_context)) > 1
          THEN Emitted(request.graph_context, Present(request.graph_context),
                       response.insights)
          ELSE response.insights = <<>>

\* the distances 0, 1, 1, 2 give one insight whose evidence has max_hops 2
C18_Witness ==
  /\ request.op = "_perform_multi_hop_reasoning"
  /\ [i \in 1..Len(request.graph_context) |-> request.graph_context[i].distance]
       = <<0, 1, 1, 2>>
  /\ Len(response.insights) = 1
  /\ response.insights[1].evidence[1].max_hops = 2


\* C19: within each bucket, _deduplicate_entities keeps for every id the record seen
\* first, unchanged, and discards every later record with that id; the records that
\* survive keep their relative input order
C19_FirstSeenKept ==
  LET Id(entity) == Get(entity, "id", "")
      Kept(list, first) == [n \in 1..Len(first) |-> list[first[n]]]
      FirstSeen(list) ==
        Kept(list, Ascending({i \in 1..Len(list) :
                                \A j \in 1..(i - 1) : Id(list[j]) # Id(list[i])}))
  IN response.op = "_deduplicate_entities" =>
       \A k \in DOMAIN request.entities \ {"relationships"} :
         response.entities[k] = FirstSeen(request.entities[k])

\* a stakeholder's Person and a later Person of a call or an email with the same id:
\* the stakeholder's record is the one returned
C19_Witness ==
  /\ response.op = "_deduplicate_entities"
  /\ \E i, j \in 1..Len(request.entities.people) :
       /\ i < j
       /\ request.entities.people[i].id = request.entities.people[j].id
       /\ request.entities.people[i].source = "stakeholder_data"
       /\ request.entities.people[j].source # "stakeholder_data"
       /\ request.entities.people[i] # request.entities.people[j]
       /\ \E n \in 1..Len(response.entities.people) :
            response.entities.people[n] = request.entities.people[i]
       /\ \A n \in 1..Len(response.entities.people) :
            response.entities.people[n] # request.entities.people[j]


\* C20: for every text, _extract_topics_from_text yields a Topic for a keyword category
\* if and only if at least one of the category's keywords occurs in the text, with
\* importance = min(matches/|keywords|, 1) and confidence = min(0.3 + 0.7*importance, 1),
\* so importance is in (0,1] and confidence in (0.3,1]; it yields at most 5 custom
\* phrase topics, each with importance 0.5 and confidence 0.4, and nothing for the
\* empty text
C20_TopicScores ==
  LET Occurring(text_lower, keywords) ==
        {i \in 1..Len(keywords) : Contains(text_lower, keywords[i])}
      Of(topics, category) == {n \in 1..Len(topics) : topics[n].category = category}
      Scored(topic, matches, size) ==
        /\ topic.keyword_matches = matches
        /\ topic.importance * size = Min(matches * One, size * One)
        /\ topic.confidence * 10 = Min(3 * One + 7 * topic.importance, 10 * One)
        /\ 0 < topic.importance /\ topic.importance <= One
        /\ 3 * One < topic.confidence * 10 /\ topic.confidence <= One
      Named(text_lower, topics) ==
        \A category \in DOMAIN topic_categories :
          IF Occurring(text_lower, topic_categories[category]) = {}
          THEN Of(topics, category) = {}
          ELSE /\ Cardinality(Of(topics, category)) = 1
               /\ \A n \in Of(topics, category) :
                    Scored(topics[n],
                           Cardinality(Occurring(text_lower, topic_categories[category])),
                           Len(topic_categories[category]))
      Custom(topics) ==
        /\ Cardinality(Of(topics, "custom")) <= 5
        /\ \A n \in Of(topics, "custom") :
             /\ topics[n].importance * 10 = 5 * One
             /\ topics[n].confidence * 10 = 4 * One
  IN request.op = "_extract_topics_from_text" =>
       /\ ~response.raised
       /\ Named(Lower(request.text), response.topics)
       /\ Custom(response.topics)
       /\ \A n \in 1..Len(response.topics) :
            response.topics[n].category \in DOMAIN topic_categories \cup {"custom"}
       /\ request.text = "" => response.topics = <<>>

\* the text "We discussed pricing and budget concerns" yields the one topic pricing,
\* with 2 matches, importance 0.25 and confidence 0.475
C20_Witness ==
  /\ request.op = "_extract_topics_from_text"
  /\ request.text = "We discussed pricing and budget concerns"
  /\ Len(response.topics) = 1
  /\ response.topics[1].category = "pricing"
  /\ response.topics[1].keyword_matches = 2
  /\ response.topics[1].importance * 4 = One
  /\ response.topics[1].confidence * 40 = 19 * One


\* C21: _analyze_community_patterns emits one community_influence insight (confidence
\* 0.8, MEMBER_OF relationships for at most 5 members) for each of the first three
\* communities that have at least 3 members, in the order the graph store returned
\* them, and no insight for a community with fewer than 3 members
C21_FirstThreeLargeCommunities ==
  LET Large(communities) ==
        Ascending({c \in 1..Len(communities) : Len(communities[c].members) >= 3})
      InsightOf(insight, community) ==
        /\ insight.type = "community_influence"
        /\ insight.confidence * 10 = 8 * One
        /\ insight.evidence[1].total_members = Len(community.members)
        /\ Len(insight.relationships) = Min(Len(community.members), 5)
        /\ \A j \in 1..Len(insight.relationships) :
             /\ insight.relationships[j].type = "MEMBER_OF"
             /\ insight.relationships[j].source = community.members[j].id
             /\ insight.relationships[j].target = "community_" \o Decimal(community.id)
      Emitted(communities, large, insights) ==
        /\ Len(insights) = Min(Len(large), 3)
        /\ \A n \in 1..Len(insights) : InsightOf(insights[n], communities[large[n]])
  IN request.op = "_analyze_community_patterns" =>
       /\ ~response.raised
       /\ Emitted(request.communities, Large(request.communities), response.insights)


\* C22: email extraction emits one Event per message: the number of events of type
\* email in the result of extract_from_account_data equals the number of record-shaped
\* messages in the email threads, including messages that share a timestamp or have
\* none
C22_OneEventPerMessage ==
  LET Messages(emails) ==
        {pair \in (1..Len(emails)) \X (1..3) :
           /\ IsDict(emails[pair[1]])
           /\ pair[2] <= Len(Get(emails[pair[1]], "messages", <<>>))
           /\ IsDict(emails[pair[1]].messages[pair[2]])}
      EmailEvents(events) == {i \in 1..Len(events) : events[i].type = "email"}
  IN (Extracted /\ HasSource("emails")) =>
       Cardinality(EmailEvents(response.extracted.events))
         = Cardinality(Messages(request.account_data.emails))


\* C23: for every Event and every participant listed on it (a string; the code takes
\* no other item of the list for a participant), _extract_relationships produces a
\* PARTICIPATED_IN relationship with strength 0.9 whose target is the event id and
\* whose source is the participant normalized as the email inference normalizes an
\* address ('@' replaced by '_at_', '.' by '_'); there is no other PARTICIPATED_IN
\* relationship, so an event without a participants field produces none
C23_ParticipatedIn ==
  LET Listed(events) ==
        {pair \in (1..Len(events)) \X (1..4) :
           /\ pair[2] <= Len(Get(events[pair[1]], "participants", <<>>))
           /\ IsStr(events[pair[1]].participants[pair[2]])}
      Normalized(participant) ==
        IF Contains(participant, "@") THEN ExtractPersonFromEmail(participant).id
        ELSE IF Contains(participant, ".") THEN "?"
        ELSE participant
      Participation(relationships) ==
        {r \in 1..Len(relationships) : relationships[r].type = "PARTICIPATED_IN"}
      Produced(relationships, event, participant) ==
        \E r \in Participation(relationships) :
          /\ relationships[r].target = event.id
          /\ relationships[r].source = Normalized(participant)
          /\ relationships[r].strength * 10 = 9 * One
  IN response.op = "_extract_relationships" =>
       /\ \A pair \in Listed(request.entities.events) :
            Produced(response.relationships, request.entities.events[pair[1]],
                     request.entities.events[pair[1]].participants[pair[2]].s)
       /\ Cardinality(Participation(response.relationships))
            = Cardinality(Listed(request.entities.events))
       /\ \A r \in Participation(response.relationships) :
            \E e \in 1..Len(request.entities.events) :
              /\ request.entities.events[e].id = response.relationships[r].target
              /\ "participants" \in DOMAIN request.entities.events[e]

\* an email event with the sender jane.doe@acme.com and an event without participants:
\* the sender participates in the first as jane_doe_at_acme_com
C23_Witness ==
  /\ response.op = "_extract_relationships"
  /\ \E e \in 1..Len(request.entities.events) :
       "participants" \notin DOMAIN request.entities.events[e]
  /\ \E e \in 1..Len(request.entities.events) :
       /\ "participants" \in DOMAIN request.entities.events[e]
       /\ \E k \in 1..Len(request.entities.events[e].participants) :
            request.entities.events[e].participants[k] = Str("jane.doe@acme.com")
       /\ \E r \in 1..Len(response.relationships) :
            /\ response.relationships[r].type = "PARTICIPATED_IN"
            /\ response.relationships[r].source = "jane_doe_at_acme_com"
            /\ response.relationships[r].target = request.entities.events[e].id


\* C24: the insight list that generate_account_insights returns is the prefix of
\* length min(20, n) of the deduplicated, confidence-ranked list of all n insights
\* collected over the five analytical queries, each insight carrying its confidence
\* multiplied once by the weight of the query that produced it and that query's type
\* as category
C24_TopTwentyWeighted ==
  LET Carried(insight, insight_query) ==
        [type |-> insight.type,
         confidence |-> (insight.confidence * insight_query.weight) \div 10,
         evidence |-> insight.evidence,
         relationships |-> insight.relationships,
         summary |-> insight.summary,
         category |-> insight_query.type]
      Collected(query_insights) ==
        Concat([i \in 1..5 |->
                  [j \in 1..Len(query_insights[i]) |->
                     Carried(query_insights[i][j], insight_queries[i])]])
      Prefix(ranked) == SubSeq(ranked, 1, Min(20, Len(ranked)))
  IN request.op = "generate_account_insights" =>
       /\ ~response.raised
       /\ response.value.insights
            = Prefix(RankAndDeduplicateInsights(Collected(request.query_insights)))

\* five queries with five insights each: 21 insights are left after the shared finding
\* is deduplicated, and the first 20 are returned
C24_Witness ==
  /\ request.op = "generate_account_insights"
  /\ \A i \in 1..5 : Len(request.query_insights[i]) = 5
  /\ Len(response.value.insights) = 20
  /\ response.value.insightCategories["stakeholder_influence"] = 5
  /\ response.value.insights[1].category = "stakeholder_influence"


\* C25: _analyze_cross_source_correlation emits exactly one cross_source_correlation
\* insight if and only if the set of graph-context entity names that occur, whatever
\* their case, as a substring of the text of some semantic hit has at least 2 elements,
\* with confidence = min(0.2 * |set|, 1); with fewer than 2 such names it emits nothing
C25_CorrelationOfNames ==
  LET Occurring(semantic_results, graph_context) ==
        {graph_context[e].name.s : e \in
           {e \in 1..Len(graph_context) :
              /\ IsStr(graph_context[e].name)
              /\ \E r \in 1..Len(semantic_results) :
                   Contains(Lower(Get(semantic_results[r], "text", "")),
                            Lower(graph_context[e].name.s))}}
      Correlations(insights) ==
        {i \in 1..Len(insights) : insights[i].type = "cross_source_correlation"}
      Emitted(names, insights) ==
        IF Cardinality(names) >= 2
        THEN /\ Cardinality(Correlations(insights)) = 1
             /\ \A i \in Correlations(insights) :
                  insights[i].confidence * 10 = Min(2 * Cardinality(names), 10) * One
        ELSE Correlations(insights) = {}
  IN (request.op = "_generate_graphrag_insights" /\ ~response.raised) =>
       Emitted(Occurring(request.semantic_results, request.graph_context),
               response.insights)

\* C26: every email Event and every document Event of an extraction has a summary of
\* at most 200 characters and every call Event one of at most 300 characters, however
\* long the body, the content or the transcript is.
C26_SummariesBounded ==
  LET Limit(type) == IF type = "call" THEN 300 ELSE 200
      Bounded(events) ==
        \A e \in 1..Len(events) :
          events[e].type \in {"email", "document", "call"}
            => Len(events[e].summary) <= Limit(events[e].type)
  IN Extracted => Bounded(response.extracted.events)

\* C27: every insight that process_query or generate_account_insights returns, and
\* every insight that a synthesizer computes, has a confidence from 0 to 1.
C27_ConfidenceInUnitInterval ==
  LET InRange(insights) ==
        \A i \in 1..Len(insights) :
          insights[i].confidence >= 0 /\ insights[i].confidence <= One
      Returned(op) ==
        IF op \in {"process_query", "generate_account_insights"}
        THEN response.value.insights
        ELSE IF op \in {"_analyze_cross_source_correlation", "_analyze_community_patterns",
                        "_analyze_semantic_structural_alignment"}
        THEN response.insights
        ELSE <<>>
  IN (response.op # "none" /\ ~response.raised) => InRange(Returned(response.op))

\* six hybrid results of which five align with the graph context: the confidence is 1
C27_Witness ==
  /\ response.op = "_analyze_semantic_structural_alignment"
  /\ ~response.raised
  /\ Len(request.hybrid_results) = MaxHybridHits
  /\ Len(response.insights) = 1
  /\ response.insights[1].evidence[1].aligned_entities = 5
  /\ response.insights[1].confidence = One

\* C28: when process_query is called for an account other than 'all', no hybrid
\* result handed to the insight synthesis is a document of another account, with or
\* without a graph context.
C28_HybridHitsOfAccount ==
  LET OfAccount(hits, account_name) ==
        \A i \in 1..Len(hits) :
          "account" \in DOMAIN hits[i].metadata => hits[i].metadata.account = account_name
  IN (response.op = "process_query" /\ ~response.raised /\ request.account_name # "all")
       => OfAccount(response.locals.hybrid_results, request.account_name)

\* C29: of the candidate insights of generate_account_insights that share a type and
\* the first 50 characters of the summary, the one that is returned has the highest
\* weighted confidence of the group.
C29_SurvivorIsBestOfGroup ==
  LET Best(returned, candidates) ==
        \A i \in 1..Len(returned) : \A c \in 1..Len(candidates) :
          InsightKey(candidates[c]) = InsightKey(returned[i])
            => candidates[c].confidence <= returned[i].confidence
  IN response.op = "generate_account_insights"
       => Best(response.value.insights, AllInsights(request.query_insights))

\* C30: in the result of extract_from_account_data every PARTICIPATED_IN relationship
\* has the id of a person of the people bucket as source and the id of an event of the
\* events bucket as target.
C30_ParticipationRefersToEntities ==
  LET Ids(bucket) == {bucket[i].id : i \in 1..Len(bucket)}
      Refers(extracted) ==
        \A r \in 1..Len(extracted.relationships) :
          extracted.relationships[r].type = "PARTICIPATED_IN"
            => /\ extracted.relationships[r].source \in Ids(extracted.people)
               /\ extracted.relationships[r].target \in Ids(extracted.events)
  IN (Extracted /\ request.extract_relationships) => Refers(response.extracted)


====
